---- MODULE Spec2Model ----
(***************************************************************************)
(* RatingRelay: relay of Plex track ratings to ListenBrainz and Last.fm.   *)
(* The model follows src/ratingrelay/ (relay.py, database.py,              *)
(* listenbrainz.py, lastfm.py, musicbrainz.py, plex.py).                   *)
(*                                                                         *)
(* Strings are sequences of one-character tokens, so that lower-casing,    *)
(* quote stripping, '&' rewriting and substring containment are computed.  *)
(* The token "rsquo" stands for the typographic apostrophe U+2019.         *)
(***************************************************************************)
EXTENDS Integers, Sequences, FiniteSets, TLC

\* ------------------------------------------------------------------ bounds
MaxPasses == 3
MaxEnv == 3

\* ------------------------------------------------------------- constants
NULL == "NULL"
love_threshold == 3
HateThresholdValue == 1
Unrated == 0

\* ---------------------------------------------------------------- strings
LowerChar(c) ==
  CASE c = "A" -> "a"
    [] c = "B" -> "b"
    [] c = "X" -> "x"
    [] OTHER -> c

lower(s) == [i \in 1..Len(s) |-> LowerChar(s[i])]

RemoveChar(s, c) == SelectSeq(s, LAMBDA ch : ch # c)

RECURSIVE ReplaceAmp(_)
ReplaceAmp(s) ==
  IF s = <<>> THEN <<>>
  ELSE IF Head(s) = "&" THEN <<"a", "n", "d">> \o ReplaceAmp(Tail(s))
  ELSE <<Head(s)>> \o ReplaceAmp(Tail(s))

\* variant that spells the conjunction with a capital letter
comparison_format_capitalized(item) ==
  LET s == RemoveChar(RemoveChar(lower(item), "'"), "rsquo")
      amp[i \in 0..Len(s)] ==
        IF i = 0 THEN <<>>
        ELSE amp[i - 1] \o (IF s[i] = "&" THEN <<"A", "n", "d">> ELSE <<s[i]>>)
  IN amp[Len(s)]

comparison_format(item) ==
  ReplaceAmp(RemoveChar(RemoveChar(lower(item), "'"), "rsquo"))

\* Python's `a in b` on strings: substring containment
StrIn(a, b) ==
  \E i \in 0..(Len(b) - Len(a)) : SubSeq(b, i + 1, i + Len(a)) = a

\* ----------------------------------------------------------------- tracks
Track(title, artist, mbid, track_mbid) ==
  [title |-> title, artist |-> artist, mbid |-> mbid, track_mbid |-> track_mbid]

\* the value None returned by track_from_plex in place of a Track
NoneTrack == Track(<<>>, <<>>, NULL, NULL)

\* ------------------------------------------------- the collaborators' data
\* The Plex music library: title, artist and the track MBID parsed from the
\* track's first guid (NULL when the track has no guid).
PlexIds == {1, 2, 3}

PlexLibrary ==
  [p \in PlexIds |->
     CASE p = 1 -> [title |-> <<"a", "b">>, artist |-> <<"x">>, guid |-> "t1"]
       [] p = 2 -> [title |-> <<"a", "b">>, artist |-> <<"x">>, guid |-> NULL]
       [] p = 3 -> [title |-> <<"a">>, artist |-> <<"x">>, guid |-> "t3"]]

Recs == {"r1", "r2"}
Tids == {"t1", "t3"}

\* MusicBrainz search_recordings(query=title, artist=artist): the candidates,
\* best guess first.
MBSearchTitleArtist(title, artist) ==
  IF title = <<"a", "b">> /\ artist = <<"x">>
    THEN << [id |-> "r1", title |-> <<"A", "b">>, artist |-> <<"X">>] >>
  ELSE IF title = <<"a">> /\ artist = <<"x">>
    THEN << [id |-> "r2", title |-> <<"A">>, artist |-> <<"X">>] >>
  ELSE <<>>

\* MusicBrainz search_recordings(query="tid:<track id>"): the recordings a
\* track id belongs to; the literal "tid:None" names no track.
MBSearchTid(tid) ==
  IF tid = "t1" THEN << [id |-> "r1", title |-> <<"A", "b">>, artist |-> <<"X">>] >>
  ELSE IF tid = "t3" THEN << [id |-> "r2", title |-> <<"A">>, artist |-> <<"X">>] >>
  ELSE <<>>

\* Last.fm resolves a submitted (title, artist) to its own catalogue entry
\* and reports that entry's spelling: here, with a capital initial.
UpperChar(c) ==
  CASE c = "a" -> "A"
    [] c = "b" -> "B"
    [] c = "x" -> "X"
    [] OTHER -> c

LfmSpelling(s) ==
  IF s = <<>> THEN <<>> ELSE <<UpperChar(LowerChar(Head(s)))>> \o lower(Tail(s))

LfmEntry(title, artist) == <<LfmSpelling(title), LfmSpelling(artist)>>

LfmCatalogue == {LfmEntry(PlexLibrary[p].title, PlexLibrary[p].artist) : p \in PlexIds}

\* --------------------------------------------------------------- database
Tables == {"loved", "hated", "reset"}

\* create_tables: three empty tables, each with its AUTOINCREMENT counter
create_tables == [t \in Tables |-> [rows |-> <<>>, seq |-> 0]]

\* INSERT OR IGNORE: the only constraint is UNIQUE(trackId), and SQLite
\* treats NULLs as distinct, so a NULL trackId never conflicts.
add_track(tbl, title, artist, track_mbid, rec_mbid) ==
  IF track_mbid # NULL /\ \E i \in 1..Len(tbl.rows) : tbl.rows[i].track_mbid = track_mbid
    THEN tbl
    ELSE [rows |-> Append(tbl.rows,
                     [id |-> tbl.seq + 1, title |-> title, artist |-> artist,
                      track_mbid |-> track_mbid, rec_mbid |-> rec_mbid]),
          seq |-> tbl.seq + 1]

\* DELETE ... WHERE recordingId = ?  (a NULL parameter matches no row)
delete_by_rec_id(tbl, rec_mbid) ==
  [tbl EXCEPT !.rows = SelectSeq(tbl.rows,
                         LAMBDA r : ~(rec_mbid # NULL /\ r.rec_mbid = rec_mbid))]

delete_by_id(tbl, db_id) ==
  [tbl EXCEPT !.rows = SelectSeq(tbl.rows, LAMBDA r : r.id # db_id)]

\* SELECT ... WHERE trackId = ? OR (title = ? AND artist = ?), fetchone():
\* the first matching row of the table scan; Optional[dict] is a sequence of
\* at most one row
QueryMatches(tbl, track_mbid, title, artist) ==
  SelectSeq(tbl.rows,
            LAMBDA r : \/ (track_mbid # NULL /\ r.track_mbid = track_mbid)
                       \/ (r.title = title /\ r.artist = artist))

query_track(tbl, track_mbid, title, artist) ==
  LET m == QueryMatches(tbl, track_mbid, title, artist)
  IN IF m = <<>> THEN <<>> ELSE <<m[1]>>

get_all_tracks(tbl) == tbl.rows

\* ------------------------------------------------------------ musicbrainz
\* query_recording_mbid: the title+artist query is issued when the track id
\* is present, the tid: query when it is None; the first candidate's id.
\* recording = search.get("recording-list"); None if it is empty, else
\* recording[0].get("id")
FirstRecordingId(recording) ==
  IF recording = <<>> THEN NULL ELSE recording[1].id

query_recording_mbid(track_mbid, title, artist) ==
  LET recording == IF track_mbid # NULL
                     THEN MBSearchTitleArtist(title, artist)
                     ELSE MBSearchTid("None")
  IN FirstRecordingId(recording)

\* ------------------------------------------------------------------ state
VARIABLES
  cfg,          \* Services/Settings: which adapters exist, hate threshold set
  rating,       \* Plex: userRating of every library track
  lbzScore,     \* ListenBrainz: feedback score per recording MBID
  lfmLoved,     \* Last.fm: the loved tracks, in Last.fm's spelling
  db,           \* Database: the tables loved, hated, reset
  pc,           \* position of the running pass
  tracks,       \* plex_loves / plex_hates of the running function
  todo,         \* elements of the set not yet visited by the for loop
  entries,      \* plex_reset: stale rows not yet visited
  remoteLbz,    \* lbz_loves / lbz_hated_mbids fetched at the start
  remoteLfm,    \* lfm_loves fetched at the start
  calls,        \* feedback submissions issued by the current pass
  lastOutcome,  \* how the last pass ended
  dbAtStart,    \* the tables when the current pass started
  cleanStart,   \* the current pass started right after a completed pass
  settled,      \* the last pass completed and nothing changed since
  everAborted,  \* some pass was aborted
  recovering,   \* a pass was aborted and nothing outside the relay changed since
  removed,      \* relayed feedback the user removed on the service since the last pass
  pushed,       \* feedback the relay submitted and has not seen withdrawn
  passes,       \* passes started
  envChanges,   \* changes made outside the relay
  failure,      \* the adapter call whose exception ended the last run
  reset_user_check, \* main: the operator's answer to the reset prompt
  lastCall,     \* a library function called on its own: arguments and result
  clock         \* time.time(), ListenBrainz.last_req_time, requests sent and when

vars == <<cfg, rating, lbzScore, lfmLoved, db, pc, tracks, todo, entries,
          remoteLbz, remoteLfm, calls, lastOutcome, dbAtStart, cleanStart,
          settled, everAborted, recovering, removed, pushed, passes,
          envChanges, failure, reset_user_check, lastCall, clock>>

passLocals == <<tracks, todo, entries, remoteLbz, remoteLfm>>
history == <<calls, lastOutcome, dbAtStart, cleanStart, settled, everAborted,
             recovering, removed, pushed, passes, failure, reset_user_check>>

RatingValues == {Unrated, HateThresholdValue, love_threshold}

\* no adapter call has raised
NoFailure == [svc |-> "none", op |-> "none", error |-> "none", attempts |-> 0]

\* what an adapter call raises: a rate-limit response (429) or anything else
Errors == {"rate_limit", "other"}

\* the prompt of reset mode has not been answered
NoAnswer == "none"

\* no library function has been called on its own
NoCall == [fn |-> "none"]

\* time in tenths of a second.  ListenBrainz.__init__ sets last_req_time to
\* None (NoReqTime); no mutating request has been sent to either adapter
NoReqTime == -1
Scores == {-1, 0, 1}

\* setup_services: Services(plex, db, lfm, lbz) with optional lfm / lbz
InitServices ==
  /\ cfg \in [lbz : BOOLEAN, lfm : BOOLEAN, hate : BOOLEAN, two_way : BOOLEAN]
  /\ rating = [p \in PlexIds |-> Unrated]
  /\ lbzScore = [r \in Recs |-> 0]
  /\ lfmLoved = {}
  /\ db = create_tables
  /\ pc = "idle"
  /\ tracks = {}
  /\ todo = {}
  /\ entries = <<>>
  /\ remoteLbz = {}
  /\ remoteLfm = <<>>
  /\ calls = <<>>
  /\ lastOutcome = "none"
  /\ dbAtStart = create_tables
  /\ cleanStart = FALSE
  /\ settled = FALSE
  /\ everAborted = FALSE
  /\ recovering = FALSE
  /\ removed = {}
  /\ pushed = {}
  /\ passes = 0
  /\ envChanges = 0
  /\ failure = NoFailure
  /\ reset_user_check = NoAnswer
  /\ clock = [now |-> 0, last_req_time |-> NoReqTime, lbz_sent |-> <<>>,
              lfm_sent |-> <<>>]

\* Settings.two_way is False unless TWO_WAY is set
Init == InitServices /\ ~cfg.two_way /\ lastCall = NoCall

\* ------------------------------------------------------------------- plex
\* Plex's ">>=" filter is "greater than": the threshold less 0.1 (in tenths)
get_loved_tracks ==
  {p \in PlexIds : rating[p] # Unrated /\ rating[p] * 10 > love_threshold * 10 - 1}

get_hated_tracks ==
  {p \in PlexIds : rating[p] # Unrated /\ rating[p] * 10 < HateThresholdValue * 10 + 1}

parse_track_mbid(p) == PlexLibrary[p].guid

\* ----------------------------------------------------------- listenbrainz
\* variant of the loved-set fetch that drops the score filter of
\* _get_all_feedback(score=1): C9 depends on that filter
all_loves_any_score == {r \in Recs : lbzScore[r] # 0}
all_loves_lbz == {r \in Recs : lbzScore[r] = 1}
all_hates_lbz == {r \in Recs : lbzScore[r] = -1}

lbz_get_loves == all_loves_lbz
lbz_get_hates == all_hates_lbz

\* client.submit_user_feedback(score, mbid): an id that names no recording
\* with feedback changes nothing
submit_user_feedback(scores, score, mbid) ==
  IF mbid \in Recs THEN [scores EXCEPT ![mbid] = score] ELSE scores

\* A search result is a dict; `missing` names what it lacks: "title" (no
\* title key), "artist-credit" (no such key, or None), "artist-credit[0]"
\* (an empty list), "name" (the first credit has no name), "id" (no id key).
\* A result without a `missing` field lacks nothing.
Missing(result) ==
  IF "missing" \in DOMAIN result THEN result.missing ELSE {}

AttributeError == "AttributeError"

\* _find_mbid_match: the id of the first result whose lower-cased title and
\* first artist-credit name equal the track's.  The try block catches
\* IndexError, KeyError and TypeError: a result without artist-credit or
\* without id is skipped.  result.get("title") and [0].get("name") give None
\* for a missing key, and None.lower() raises AttributeError, which is not
\* caught.
RECURSIVE FindMbidWalk(_, _, _)
FindMbidWalk(track, track_search, i) ==
  IF i > Len(track_search) THEN NULL
  ELSE LET result == track_search[i]
       IN IF "title" \in Missing(result) THEN AttributeError
          ELSE IF Missing(result) \cap {"artist-credit", "artist-credit[0]"} # {}
            THEN FindMbidWalk(track, track_search, i + 1)
          ELSE IF "name" \in Missing(result) THEN AttributeError
          ELSE IF /\ lower(track.title) = lower(result.title)
                  /\ lower(track.artist) = lower(result.artist)
                  /\ "id" \notin Missing(result)
            THEN result.id
          ELSE FindMbidWalk(track, track_search, i + 1)

_find_mbid_match(track, track_search) == FindMbidWalk(track, track_search, 1)

_get_track_mbid(track) ==
  _find_mbid_match(track, MBSearchTitleArtist(track.title, track.artist))

FeedbackValue(feedback) == IF feedback = "love" THEN 1 ELSE -1

\* _handle_feedback: the id submitted for the track, NULL when there is none
HandleFeedbackMbid(track) ==
  IF track.mbid = NULL THEN _get_track_mbid(track) ELSE track.mbid

\* ListenBrainz.reset(track): feedback 0 for track.get("track_mbid")
LbzResetMbid(row) == row.track_mbid

\* ----------------------------------------------------------------- lastfm
RECURSIVE SetToSeq(_)
SetToSeq(S) ==
  IF S = {} THEN <<>>
  ELSE LET x == CHOOSE y \in S : TRUE IN <<x>> \o SetToSeq(S \ {x})

\* LastFM.all_loves: Track(title, artist) per loved track
all_loves_lfm == SetToSeq(lfmLoved)

\* lfm_get_loves: list of (title.lower(), artist.lower()) tuples
lfm_get_loves ==
  [i \in 1..Len(all_loves_lfm) |->
     [kind |-> "tuple", title |-> lower(all_loves_lfm[i][1]),
      artist |-> lower(all_loves_lfm[i][2])]]

\* ------------------------------------------------------------------ relay
\* check_list_match: index of the first element of target_list whose title
\* and artist contain or are contained in the track's; 0 stands for False.
\* An element is a (title, artist) tuple, a Track, a PlexTrack or anything
\* else (kind "other", skipped with a warning).  The PlexTrack case assigns
\* list_artist only: list_title keeps the value of the previous element, and
\* is an unbound local when no tuple or Track came before.
UnboundLocalError == -1

ListTitle(e) == comparison_format(e.title)
ListArtist(e) == IF e.kind = "Track" THEN e.artist ELSE comparison_format(e.artist)

ElementMatches(track, e) ==
  LET title == comparison_format(track.title)
      artist == comparison_format(track.artist)
  IN /\ (StrIn(title, ListTitle(e)) \/ StrIn(ListTitle(e), title))
     /\ (StrIn(artist, ListArtist(e)) \/ StrIn(ListArtist(e), artist))

RECURSIVE CheckListWalk(_, _, _, _, _)
CheckListWalk(track, target_list, i, bound, list_title) ==
  IF i > Len(target_list) THEN 0
  ELSE LET e == target_list[i]
           title == comparison_format(track.title)
           artist == comparison_format(track.artist)
       IN IF e.kind \notin {"tuple", "Track", "PlexTrack"}
            THEN CheckListWalk(track, target_list, i + 1, bound, list_title)
          ELSE IF e.kind = "PlexTrack" /\ ~bound
            THEN UnboundLocalError
          ELSE LET lt == IF e.kind = "PlexTrack" THEN list_title ELSE ListTitle(e)
                   la == ListArtist(e)
               IN IF /\ (StrIn(title, lt) \/ StrIn(lt, title))
                     /\ (StrIn(artist, la) \/ StrIn(la, artist))
                    THEN i
                    ELSE CheckListWalk(track, target_list, i + 1, TRUE, lt)

check_list_match(track, target_list) ==
  CheckListWalk(track, target_list, 1, FALSE, <<>>)

\* track_from_plex: the database first, MusicBrainz otherwise; None when
\* MusicBrainz returns no recording
track_from_plex_resolving(p, table) ==
  LET title == PlexLibrary[p].title
      artist == PlexLibrary[p].artist
      track_mbid == parse_track_mbid(p)
      found == query_recording_mbid(track_mbid, title, artist)
  IN IF found = NULL THEN NoneTrack ELSE Track(title, artist, found, track_mbid)

track_from_plex(p, table) ==
  LET title == PlexLibrary[p].title
      artist == PlexLibrary[p].artist
      track_mbid == parse_track_mbid(p)
      db_match == query_track(db[table], track_mbid, title, artist)
      found == query_recording_mbid(track_mbid, title, artist)
  IN IF db_match # <<>>
       THEN Track(title, artist, db_match[1].rec_mbid, track_mbid)
       ELSE IF found = NULL THEN NoneTrack
            ELSE Track(title, artist, found, track_mbid)

to_tracks(plex_tracks, table) == {track_from_plex(p, table) : p \in plex_tracks}

\* ---------------------------------------------------------------- actions
\* the positions of a reset-mode run
ResetModePcs == {"reset_plex", "reset_lbz", "reset_lfm"}

\* an exception or a crash ends the run where it stands; f is the adapter
\* call that raised, if one did
AbortWith(outcome, f) ==
  /\ pc' = "idle"
  /\ lastOutcome' = outcome
  /\ failure' = f
  /\ reset_user_check' = NoAnswer
  /\ everAborted' = TRUE
  /\ recovering' = (pc \notin ResetModePcs)
  /\ removed' = {}
  /\ settled' = FALSE
  /\ tracks' = {}
  /\ todo' = {}
  /\ entries' = <<>>
  /\ remoteLbz' = {}
  /\ remoteLfm' = <<>>

Abort(outcome) == AbortWith(outcome, NoFailure)

\* the call of `op` on adapter `svc` raised `error`; neither adapter method
\* catches anything, so the call was made once
Raised(svc, op, error) == [svc |-> svc, op |-> op, error |-> error, attempts |-> 1]

LbzCall(op, track, mbid) ==
  [svc |-> "lbz", op |-> op, mbid |-> mbid, title |-> track.title, artist |-> track.artist]

LfmCall(op, title, artist) ==
  [svc |-> "lfm", op |-> op, mbid |-> NULL, title |-> title, artist |-> artist]

\* the feedback a service holds because the relay submitted it
Feedback(svc, op, key, title, artist) ==
  [svc |-> svc, op |-> op, key |-> key, title |-> title, artist |-> artist]

Without(fs, svc, key) == {f \in fs : ~(f.svc = svc /\ f.key = key)}

\* plex_relay_loves, up to the for loop: fetch the remote state, query Plex
PlexRelayLovesBegin ==
  /\ pc = "idle"
  /\ passes < MaxPasses
  /\ passes' = passes + 1
  /\ remoteLbz' = IF cfg.lbz THEN lbz_get_loves ELSE {}
  /\ remoteLfm' = IF cfg.lfm THEN lfm_get_loves ELSE <<>>
  /\ tracks' = to_tracks(get_loved_tracks, "loved")
  /\ todo' = tracks'
  /\ pc' = "loves"
  /\ calls' = <<>>
  /\ dbAtStart' = db
  /\ cleanStart' = settled
  /\ settled' = FALSE
  /\ failure' = NoFailure
  /\ UNCHANGED <<cfg, lastCall, clock, rating, lbzScore, lfmLoved, db, entries, lastOutcome,
                 everAborted, recovering, removed, pushed, envChanges,
                 reset_user_check>>

\* one iteration of `for track in plex_loves` / `for track in plex_hates`:
\* add_track, then lbz.love / lbz.hate unless the id is in the fetched remote
\* set, then (loves only) lfm.love unless check_list_match finds the track.
\* `track` is None when MusicBrainz returned nothing: track.title raises.
RelayIteration(table, op, withLfm) ==
  \E track \in todo :
    IF track = NoneTrack
      THEN /\ Abort("AttributeError")
           /\ UNCHANGED <<cfg, lastCall, clock, rating, lbzScore, lfmLoved, db, calls, dbAtStart,
                          cleanStart, pushed, passes, envChanges>>
      ELSE
        LET mbid == HandleFeedbackMbid(track)
            lbzSubmits == cfg.lbz /\ track.mbid \notin remoteLbz /\ mbid # NULL
            lfmSubmits == withLfm /\ cfg.lfm /\ check_list_match(track, remoteLfm) = 0
            entry == LfmEntry(track.title, track.artist)
        IN \E fail \in {"none", "lbz", "lfm"}, error \in Errors :
             LET lbzDone == lbzSubmits /\ fail # "lbz"
                 lfmDone == lfmSubmits /\ fail = "none"
                 pushed1 == IF lbzDone
                              THEN Without(pushed, "lbz", <<mbid>>)
                                   \cup {Feedback("lbz", op, <<mbid>>, track.title, track.artist)}
                              ELSE pushed
             IN
             /\ fail = "none" => error = "other"
             /\ fail = "lbz" => lbzSubmits
             /\ fail = "lfm" => lfmSubmits
             /\ db' = [db EXCEPT ![table] =
                         add_track(@, track.title, track.artist, track.track_mbid, track.mbid)]
             /\ lbzScore' = IF lbzDone
                              THEN submit_user_feedback(lbzScore, FeedbackValue(op), mbid)
                              ELSE lbzScore
             /\ lfmLoved' = IF lfmDone THEN lfmLoved \cup {entry} ELSE lfmLoved
             /\ calls' = calls
                  \o (IF lbzDone THEN <<LbzCall(op, track, mbid)>> ELSE <<>>)
                  \o (IF lfmDone THEN <<LfmCall("love", track.title, track.artist)>> ELSE <<>>)
             /\ pushed' = IF lfmDone
                            THEN Without(pushed1, "lfm", entry)
                                 \cup {Feedback("lfm", "love", entry, track.title, track.artist)}
                            ELSE pushed1
             /\ IF fail = "none"
                  THEN /\ todo' = todo \ {track}
                       /\ UNCHANGED <<pc, tracks, entries, remoteLbz, remoteLfm,
                                      lastOutcome, everAborted, recovering,
                                      removed, settled, failure, reset_user_check>>
                  ELSE AbortWith("adapter_error",
                                 Raised(fail, IF fail = "lbz" THEN op ELSE "love", error))
             /\ UNCHANGED <<cfg, lastCall, clock, rating, dbAtStart, cleanStart, passes, envChanges>>

PlexRelayLovesIteration ==
  /\ pc = "loves"
  /\ todo # {}
  /\ RelayIteration("loved", "love", TRUE)

PlexRelayHatesIteration ==
  /\ pc = "hates"
  /\ todo # {}
  /\ RelayIteration("hated", "hate", FALSE)

\* plex_reset, up to its for loop: the rows of the table whose recording id
\* is not among the ids of the tracks Plex returned
StaleEntries(table, plex_tracks) ==
  LET plex_ids == {t.mbid : t \in plex_tracks}
  IN SelectSeq(get_all_tracks(db[table]), LAMBDA row : row.rec_mbid \notin plex_ids)

PlexResetBegin ==
  /\ pc \in {"loves", "hates"}
  /\ todo = {}
  /\ entries' = StaleEntries(IF pc = "loves" THEN "loved" ELSE "hated", tracks)
  /\ pc' = IF pc = "loves" THEN "reset_loved" ELSE "reset_hated"
  /\ UNCHANGED <<cfg, lastCall, clock, rating, lbzScore, lfmLoved, db, tracks, todo, remoteLbz,
                 remoteLfm, envChanges>>
  /\ UNCHANGED history

\* one iteration of plex_reset on a stale row: delete_by_rec_id, lbz.reset(row),
\* lfm.reset(Track(title, artist))
PlexResetIteration ==
  /\ pc \in {"reset_loved", "reset_hated"}
  /\ entries # <<>>
  /\ LET row == Head(entries)
         table == IF pc = "reset_loved" THEN "loved" ELSE "hated"
         entry == LfmEntry(row.title, row.artist)
     IN \E fail \in {"none", "lbz", "lfm"}, error \in Errors :
          LET lbzDone == cfg.lbz /\ fail # "lbz"
              lfmDone == cfg.lfm /\ fail = "none"
              pushed1 == IF lbzDone THEN Without(pushed, "lbz", <<LbzResetMbid(row)>>)
                         ELSE pushed
          IN
          /\ fail = "none" => error = "other"
          /\ fail = "lbz" => cfg.lbz
          /\ fail = "lfm" => cfg.lfm
          /\ db' = [db EXCEPT ![table] = delete_by_rec_id(@, row.rec_mbid)]
          /\ lbzScore' = IF lbzDone
                           THEN submit_user_feedback(lbzScore, 0, LbzResetMbid(row))
                           ELSE lbzScore
          /\ lfmLoved' = IF lfmDone THEN lfmLoved \ {entry} ELSE lfmLoved
          /\ calls' = calls
               \o (IF lbzDone THEN <<LbzCall("reset", row, LbzResetMbid(row))>> ELSE <<>>)
               \o (IF lfmDone THEN <<LfmCall("reset", row.title, row.artist)>> ELSE <<>>)
          /\ pushed' = IF lfmDone THEN Without(pushed1, "lfm", entry) ELSE pushed1
          /\ IF fail = "none"
               THEN /\ entries' = Tail(entries)
                    /\ UNCHANGED <<pc, tracks, todo, remoteLbz, remoteLfm,
                                   lastOutcome, everAborted, recovering,
                                   removed, settled, failure, reset_user_check>>
               ELSE AbortWith("adapter_error", Raised(fail, "reset", error))
          /\ UNCHANGED <<cfg, lastCall, clock, rating, dbAtStart, cleanStart, passes, envChanges>>

\* plex_reset has visited every row: plex_relay_loves / plex_relay_hates returns
PlexRelayReturns ==
  /\ pc \in {"reset_loved", "reset_hated"}
  /\ entries = <<>>
  /\ pc' = IF pc = "reset_loved" THEN "loves_returned" ELSE "hates_returned"
  /\ UNCHANGED <<cfg, lastCall, clock, rating, lbzScore, lfmLoved, db, tracks, todo, entries,
                 remoteLbz, remoteLfm, envChanges>>
  /\ UNCHANGED history

\* plex_relay / lbz_relay: `if services.plex.hate_threshold is None`
HateThresholdNeverNone == FALSE
HateThresholdIsNone == ~cfg.hate

\* plex_relay_hates, up to the for loop (ListenBrainz configured)
PlexRelayHatesBegin ==
  /\ pc = "loves_returned"
  /\ ~HateThresholdIsNone
  /\ cfg.lbz
  /\ remoteLbz' = all_hates_lbz
  /\ remoteLfm' = <<>>
  /\ tracks' = to_tracks(get_hated_tracks, "hated")
  /\ todo' = tracks'
  /\ pc' = "hates"
  /\ UNCHANGED <<cfg, lastCall, clock, rating, lbzScore, lfmLoved, db, entries, envChanges>>
  /\ UNCHANGED history

\* relay: `if settings.two_way:` lbz_relay and lfm_relay follow plex_relay
RelaysBackAlways == TRUE
RelaysBack == cfg.two_way

\* the end of plex_relay: print_stats(love, hate).  plex_relay_hates returns
\* {} when ListenBrainz is not configured, and formatting hate.get(...) = None
\* with :<10 raises TypeError.  With two_way, relay goes on to lbz_relay.
print_stats ==
  /\ \/ pc = "hates_returned"
     \/ pc = "loves_returned" /\ ~(~HateThresholdIsNone /\ cfg.lbz)
  /\ IF pc = "loves_returned" /\ ~HateThresholdIsNone
       THEN Abort("TypeError")
       ELSE /\ IF RelaysBack
                 THEN pc' = "lbz_relay" /\ UNCHANGED <<lastOutcome, settled>>
                 ELSE pc' = "idle" /\ lastOutcome' = "ok" /\ settled' = TRUE
            /\ removed' = {}
            /\ tracks' = {}
            /\ todo' = {}
            /\ entries' = <<>>
            /\ remoteLbz' = {}
            /\ remoteLfm' = <<>>
            /\ UNCHANGED <<everAborted, recovering, failure, reset_user_check>>
  /\ UNCHANGED <<cfg, lastCall, clock, rating, lbzScore, lfmLoved, db, calls, dbAtStart,
                 cleanStart, pushed, passes, envChanges>>

\* ------------------------------------------------------------- reset mode
\* main, mode "reset": Prompt.ask, then reset(services) when the answer is
\* 'reset'
Answers == {"reset", "Reset", "no"}

\* variant of the comparison that ignores the answer's case: C20 depends on
\* the exact comparison
PromptAcceptsAnyCase(answer) == answer \in {"reset", "Reset"}
PromptAccepts(answer) == answer = "reset"

MainResetPrompt ==
  /\ pc = "idle"
  /\ passes < MaxPasses
  /\ passes' = passes + 1
  /\ calls' = <<>>
  /\ failure' = NoFailure
  /\ \E answer \in Answers :
       IF PromptAccepts(answer)
         THEN /\ reset_user_check' = answer
              /\ pc' = "reset_plex"
              /\ UNCHANGED lastOutcome
         ELSE /\ reset_user_check' = NoAnswer
              /\ pc' = "idle"
              /\ lastOutcome' = "declined"
  /\ UNCHANGED <<cfg, lastCall, clock, rating, lbzScore, lfmLoved, db, dbAtStart, cleanStart,
                 settled, everAborted, recovering, removed, pushed, envChanges>>
  /\ UNCHANGED passLocals

\* Python's + on two collections: defined for two lists, TypeError otherwise
PyPlus(kind1, kind2) ==
  IF kind1 = "list" /\ kind2 = "list" THEN "list" ELSE "TypeError"

\* music_library.search returns a list; _get_all_feedback returns a set
PlexSearchKind == "list"
LbzFeedbackKind == "set"

\* reset(services) has nothing left to do
ResetReturns ==
  /\ pc' = "idle"
  /\ lastOutcome' = "reset_done"
  /\ reset_user_check' = NoAnswer

PlexCall(p) ==
  [svc |-> "plex", op |-> "reset", mbid |-> NULL,
   title |-> PlexLibrary[p].title, artist |-> PlexLibrary[p].artist]

\* reset_plex: rating None for every loved track and, with a hate threshold,
\* every hated track; then reset goes on to the first configured adapter
reset_plex ==
  /\ pc = "reset_plex"
  /\ LET loves == get_loved_tracks
         hates == IF cfg.hate THEN get_hated_tracks ELSE {}
         tracks_to_reset == SetToSeq(loves) \o SetToSeq(hates)
     IN /\ PyPlus(PlexSearchKind, PlexSearchKind) = "list"
        /\ rating' = [p \in PlexIds |->
                        IF \E i \in 1..Len(tracks_to_reset) : tracks_to_reset[i] = p
                          THEN Unrated ELSE rating[p]]
        /\ calls' = calls \o [i \in 1..Len(tracks_to_reset) |-> PlexCall(tracks_to_reset[i])]
  /\ IF cfg.lbz THEN pc' = "reset_lbz" /\ UNCHANGED <<lastOutcome, reset_user_check>>
     ELSE IF cfg.lfm THEN pc' = "reset_lfm" /\ UNCHANGED <<lastOutcome, reset_user_check>>
     ELSE ResetReturns
  /\ settled' = FALSE
  /\ recovering' = FALSE
  /\ removed' = {}
  /\ UNCHANGED <<cfg, lastCall, clock, lbzScore, lfmLoved, db, dbAtStart, cleanStart, everAborted,
                 pushed, passes, envChanges, failure>>
  /\ UNCHANGED passLocals

\* the for loop of reset_lbz over tracks_to_reset: feedback 0 per track, one
\* retry after a 429 ResponseError; the first k tracks are reset, and when
\* k is not the last the next track's submission raised on its `attempts`-th
\* attempt
ResetLbzLoop(tracks_to_reset) ==
  \E k \in 0..Len(tracks_to_reset), error \in Errors, attempts \in {1, 2} :
    /\ k = Len(tracks_to_reset) => (error = "other" /\ attempts = 1)
    /\ attempts = 2 => error = "rate_limit"
    /\ lbzScore' = [r \in Recs |->
                      IF \E i \in 1..k : tracks_to_reset[i] = r THEN 0 ELSE lbzScore[r]]
    /\ pushed' = {f \in pushed :
                    ~(f.svc = "lbz" /\ \E i \in 1..k : <<tracks_to_reset[i]>> = f.key)}
    /\ calls' = calls \o [i \in 1..k |->
                   [svc |-> "lbz", op |-> "reset", mbid |-> tracks_to_reset[i],
                    title |-> <<>>, artist |-> <<>>]]
    /\ IF k = Len(tracks_to_reset)
         THEN /\ IF cfg.lfm THEN pc' = "reset_lfm" /\ UNCHANGED <<lastOutcome, reset_user_check>>
                 ELSE ResetReturns
              /\ UNCHANGED <<everAborted, recovering, failure, settled, removed>>
              /\ UNCHANGED passLocals
         ELSE AbortWith("adapter_error",
                        [svc |-> "lbz", op |-> "reset", error |-> error, attempts |-> attempts])

\* reset_lbz: all_loves() + all_hates() adds two sets
reset_lbz ==
  /\ pc = "reset_lbz"
  /\ LET loves == all_loves_lbz
         hates == all_hates_lbz
     IN IF PyPlus(LbzFeedbackKind, LbzFeedbackKind) = "TypeError"
          THEN /\ Abort("TypeError_reset_lbz")
               /\ UNCHANGED <<lbzScore, pushed, calls>>
          ELSE ResetLbzLoop(SetToSeq(loves) \o SetToSeq(hates))
  /\ UNCHANGED <<cfg, lastCall, clock, rating, lfmLoved, db, dbAtStart, cleanStart, passes, envChanges>>

\* reset_lfm: lfm.reset(track) for every loved track; the first k calls
\* succeed, and when k is not the last the next call raised
reset_lfm ==
  /\ pc = "reset_lfm"
  /\ LET loves == all_loves_lfm
     IN \E k \in 0..Len(loves), error \in Errors :
          /\ k = Len(loves) => error = "other"
          /\ lfmLoved' = lfmLoved \ {LfmEntry(loves[i][1], loves[i][2]) : i \in 1..k}
          /\ pushed' = {f \in pushed :
                          ~(f.svc = "lfm" /\ \E i \in 1..k :
                                               f.key = LfmEntry(loves[i][1], loves[i][2]))}
          /\ calls' = calls \o [i \in 1..k |-> LfmCall("reset", loves[i][1], loves[i][2])]
          /\ IF k = Len(loves)
               THEN /\ ResetReturns
                    /\ UNCHANGED <<everAborted, recovering, failure, settled, removed>>
                    /\ UNCHANGED passLocals
               ELSE AbortWith("adapter_error", Raised("lfm", "reset", error))
  /\ UNCHANGED <<cfg, lastCall, clock, rating, lbzScore, db, dbAtStart, cleanStart, passes, envChanges>>

\* the process is killed in the middle of a pass
Crash ==
  /\ pc # "idle"
  /\ Abort("crashed")
  /\ UNCHANGED <<cfg, lastCall, clock, rating, lbzScore, lfmLoved, db, calls, dbAtStart,
                 cleanStart, pushed, passes, envChanges>>

\* ------------------------------------------------- changes outside the relay
\* the user rates a track on Plex (Plex.submit_rating / track.rate)
PlexRate ==
  /\ pc = "idle"
  /\ envChanges < MaxEnv
  /\ \E p \in PlexIds, r \in RatingValues :
       /\ r # rating[p]
       /\ rating' = [rating EXCEPT ![p] = r]
  /\ envChanges' = envChanges + 1
  /\ settled' = FALSE
  /\ recovering' = FALSE
  /\ UNCHANGED <<cfg, lastCall, clock, lbzScore, lfmLoved, db, pc, calls, lastOutcome, dbAtStart,
                 cleanStart, everAborted, removed, pushed, passes,
                 failure, reset_user_check>>
  /\ UNCHANGED passLocals

\* the user changes a recording's feedback on ListenBrainz itself
LbzUserFeedback ==
  /\ pc = "idle"
  /\ cfg.lbz
  /\ envChanges < MaxEnv
  /\ \E r \in Recs, s \in Scores :
       /\ s # lbzScore[r]
       /\ lbzScore' = [lbzScore EXCEPT ![r] = s]
       /\ pushed' = Without(pushed, "lbz", <<r>>)
       /\ removed' = IF s = 0
                       THEN removed \cup {f \in pushed : f.svc = "lbz" /\ f.key = <<r>>}
                       ELSE Without(removed, "lbz", <<r>>)
  /\ envChanges' = envChanges + 1
  /\ settled' = FALSE
  /\ recovering' = FALSE
  /\ UNCHANGED <<cfg, lastCall, clock, rating, lfmLoved, db, pc, calls, lastOutcome, dbAtStart,
                 cleanStart, everAborted, passes,
                 failure, reset_user_check>>
  /\ UNCHANGED passLocals

\* the user loves or un-loves a track on Last.fm itself
LfmUserFeedback ==
  /\ pc = "idle"
  /\ cfg.lfm
  /\ envChanges < MaxEnv
  /\ \E e \in LfmCatalogue :
       /\ lfmLoved' = IF e \in lfmLoved THEN lfmLoved \ {e} ELSE lfmLoved \cup {e}
       /\ pushed' = Without(pushed, "lfm", e)
       /\ removed' = IF e \in lfmLoved
                       THEN removed \cup {f \in pushed : f.svc = "lfm" /\ f.key = e}
                       ELSE Without(removed, "lfm", e)
  /\ envChanges' = envChanges + 1
  /\ settled' = FALSE
  /\ recovering' = FALSE
  /\ UNCHANGED <<cfg, lastCall, clock, rating, lbzScore, db, pc, calls, lastOutcome, dbAtStart,
                 cleanStart, everAborted, passes,
                 failure, reset_user_check>>
  /\ UNCHANGED passLocals

Next ==
  \/ PlexRelayLovesBegin
  \/ PlexRelayLovesIteration
  \/ PlexRelayHatesBegin
  \/ PlexRelayHatesIteration
  \/ PlexResetBegin
  \/ PlexResetIteration
  \/ PlexRelayReturns
  \/ print_stats
  \/ Crash
  \/ MainResetPrompt
  \/ reset_plex
  \/ reset_lbz
  \/ reset_lfm
  \/ PlexRate
  \/ LbzUserFeedback
  \/ LfmUserFeedback

Spec == Init /\ [][Next]_vars

\* ---------------------------------------------------------- two-way relay
\* relay with TWO_WAY set: plex_relay, then lbz_relay and lfm_relay, which
\* push what is loved / hated on the services to Plex (sync_list_with_plex).
MaxTwoWayPasses == 2
MaxTwoWayEnv == 2

TwoWayPcs == {"lbz_relay", "lfm_relay"}

\* the title and artist ListenBrainz reports for a recording (track_metadata)
RecordingMetadata(r) ==
  IF r = "r1" THEN [title |-> <<"A", "b">>, artist |-> <<"X">>]
  ELSE [title |-> <<"A">>, artist |-> <<"X">>]

\* ListenBrainz._get_all_feedback(score): Track(title, artist, mbid)
get_all_feedback(score) ==
  {Track(RecordingMetadata(r).title, RecordingMetadata(r).artist, r, NULL) :
     r \in {x \in Recs : lbzScore[x] = score}}

\* LastFM.all_loves: Track(title, artist)
lfm_all_loves == {Track(e[1], e[2], NULL, NULL) : e \in lfmLoved}

\* Plex.get_loved_tracks on given ratings
loved_tracks_of(rt) ==
  {p \in PlexIds : rt[p] # Unrated /\ rt[p] * 10 > love_threshold * 10 - 1}

\* the elements check_list_match sees: a Track, None, a PlexTrack
TrackElement(t) ==
  IF t = NoneTrack THEN [kind |-> "other"]
  ELSE [kind |-> "Track", title |-> t.title, artist |-> t.artist, mbid |-> t.mbid]

PlexTrackElement(p) ==
  [kind |-> "PlexTrack", title |-> PlexLibrary[p].title,
   artist |-> PlexLibrary[p].artist, id |-> p]

\* plex.music_library.search(libtype="track", title=q): the library tracks
\* whose title contains q, letter case ignored
music_library_search(q) ==
  LET hits == SelectSeq([i \in 1..Cardinality(PlexIds) |-> i],
                        LAMBDA p : StrIn(lower(q), lower(PlexLibrary[p].title)))
  IN [i \in 1..Len(hits) |-> PlexTrackElement(hits[i])]

\* str.replace("'", "’")
SmartQuotes(s) == [i \in 1..Len(s) |-> IF s[i] = "'" THEN "rsquo" ELSE s[i]]

PlexRatingCall(p, op) ==
  [svc |-> "plex", op |-> op, mbid |-> NULL, title |-> PlexLibrary[p].title,
   artist |-> PlexLibrary[p].artist, id |-> p]

\* sync_list_with_plex, the loop `for track in tracks`: ts the tracks still
\* to visit, plex_items the Tracks of plex.get_loved_tracks(), rt the Plex
\* ratings and cs the calls so far.  check_list_match on the search result
\* may raise, which ends the loop.
RECURSIVE SyncLoop(_, _, _, _, _, _)
SyncLoop(ts, plex_items, op, threshold, rt, cs) ==
  IF ts = <<>> THEN [rating |-> rt, calls |-> cs, raised |-> FALSE]
  ELSE LET track == Head(ts)
           first == music_library_search(lower(track.title))
           plex_track_search == IF first = <<>>
                                  THEN music_library_search(SmartQuotes(lower(track.title)))
                                  ELSE first
           match == check_list_match(track, plex_track_search)
       IN IF check_list_match(track, plex_items) # 0
            THEN SyncLoop(Tail(ts), plex_items, op, threshold, rt, cs)
          ELSE IF match = UnboundLocalError
            THEN [rating |-> rt, calls |-> cs, raised |-> TRUE]
          ELSE IF match # 0
            THEN SyncLoop(Tail(ts), plex_items, op, threshold,
                          [rt EXCEPT ![plex_track_search[match].id] = threshold],
                          Append(cs, PlexRatingCall(plex_track_search[match].id, op)))
          ELSE SyncLoop(Tail(ts), plex_items, op, threshold, rt, cs)

\* sync_list_with_plex(tracks, services, rating): plex_items is built from
\* plex.get_loved_tracks() for either rating
sync_list_with_plex(remote, table, rt, cs) ==
  LET plex_items == SetToSeq({TrackElement(t) : t \in to_tracks(loved_tracks_of(rt), table)})
  IN SyncLoop(SetToSeq(remote), plex_items,
              IF table = "loved" THEN "love" ELSE "hate",
              IF table = "loved" THEN love_threshold ELSE HateThresholdValue,
              rt, cs)

\* lbz_relay: lbz_relay_generic for loves and, with a hate threshold, for
\* hates; skipped with a warning when ListenBrainz is not configured
lbz_relay ==
  /\ pc = "lbz_relay"
  /\ LET loves == sync_list_with_plex(get_all_feedback(1), "loved", rating, calls)
         hates == IF ~HateThresholdIsNone /\ ~loves.raised
                    THEN sync_list_with_plex(get_all_feedback(-1), "hated",
                                             loves.rating, loves.calls)
                    ELSE loves
         done == IF cfg.lbz THEN hates
                 ELSE [rating |-> rating, calls |-> calls, raised |-> FALSE]
     IN /\ rating' = done.rating
        /\ calls' = done.calls
        /\ IF done.raised
             THEN Abort("UnboundLocalError")
             ELSE /\ pc' = "lfm_relay"
                  /\ UNCHANGED <<lastOutcome, everAborted, recovering, failure,
                                 reset_user_check, removed, settled>>
                  /\ UNCHANGED passLocals
  /\ UNCHANGED <<cfg, lastCall, clock, lbzScore, lfmLoved, db, dbAtStart, cleanStart,
                 pushed, passes, envChanges>>

\* lfm_relay: the loves of Last.fm; skipped when Last.fm is not configured.
\* relay returns after it.
lfm_relay ==
  /\ pc = "lfm_relay"
  /\ LET done == IF cfg.lfm
                   THEN sync_list_with_plex(lfm_all_loves, "loved", rating, calls)
                   ELSE [rating |-> rating, calls |-> calls, raised |-> FALSE]
     IN /\ rating' = done.rating
        /\ calls' = done.calls
        /\ IF done.raised
             THEN Abort("UnboundLocalError")
             ELSE /\ pc' = "idle"
                  /\ lastOutcome' = "ok"
                  /\ settled' = TRUE
                  /\ UNCHANGED <<everAborted, recovering, failure,
                                 reset_user_check, removed>>
                  /\ UNCHANGED passLocals
  /\ UNCHANGED <<cfg, lastCall, clock, lbzScore, lfmLoved, db, dbAtStart, cleanStart,
                 pushed, passes, envChanges>>

\* relay(services, settings) starts, and the changes made outside it
RelayBegin == PlexRelayLovesBegin /\ passes < MaxTwoWayPasses
PlexUserRates == PlexRate /\ envChanges < MaxTwoWayEnv
LbzUserChanges == LbzUserFeedback /\ envChanges < MaxTwoWayEnv
LfmUserChanges == LfmUserFeedback /\ envChanges < MaxTwoWayEnv

InitTW == InitServices /\ lastCall = NoCall

NextTW ==
  \/ RelayBegin
  \/ PlexRelayLovesIteration
  \/ PlexRelayHatesBegin
  \/ PlexRelayHatesIteration
  \/ PlexResetBegin
  \/ PlexResetIteration
  \/ PlexRelayReturns
  \/ print_stats
  \/ lbz_relay
  \/ lfm_relay
  \/ PlexUserRates
  \/ LbzUserChanges
  \/ LfmUserChanges

SpecTW == InitTW /\ [][NextTW]_vars

\* ------------------------------------------- the single-file ratingrelay.py
\* src/ratingrelay.py: Relay.run = Relay.loves, Relay.hates, Reset.all,
\* Relay.print_stats, on the same Plex, ListenBrainz, Last.fm and Database.
\* Here `todo` holds the Plex tracks not yet visited and `tracks` the set
\* plex_tracks built by the loop.

\* track_from_plex of this file: a Track whose mbid is None when MusicBrainz
\* returns no recording
track_from_plex_sf(p, table) ==
  LET title == PlexLibrary[p].title
      artist == PlexLibrary[p].artist
      track_mbid == parse_track_mbid(p)
      db_match == query_track(db[table], track_mbid, title, artist)
  IN IF db_match # <<>>
       THEN Track(title, artist, db_match[1].rec_mbid, track_mbid)
       ELSE Track(title, artist, query_recording_mbid(track_mbid, title, artist), track_mbid)

\* (track.title.lower(), track.artist.lower()) in lfm_loves_tuples
InLfmTuples(track, lfm_loves_tuples) ==
  \E i \in 1..Len(lfm_loves_tuples) :
    /\ lfm_loves_tuples[i].title = lower(track.title)
    /\ lfm_loves_tuples[i].artist = lower(track.artist)

\* Relay.loves, up to the for loop
RelayLovesBegin ==
  /\ pc = "idle"
  /\ passes < MaxPasses
  /\ passes' = passes + 1
  /\ remoteLbz' = IF cfg.lbz THEN all_loves_lbz ELSE {}
  /\ remoteLfm' = IF cfg.lfm THEN lfm_get_loves ELSE <<>>
  /\ tracks' = {}
  /\ todo' = get_loved_tracks
  /\ pc' = "sf_loves"
  /\ calls' = <<>>
  /\ failure' = NoFailure
  /\ dbAtStart' = db
  /\ UNCHANGED <<cfg, lastCall, clock, rating, lbzScore, lfmLoved, db, entries, lastOutcome,
                 cleanStart, settled, everAborted, recovering, removed, pushed,
                 envChanges, reset_user_check>>

\* one iteration of `for plex_track in plex_loves` / `in plex_hates`
RelayIterationSF(table, op, withLfm) ==
  \E p \in todo :
    LET track == track_from_plex_sf(p, table)
        mbid == HandleFeedbackMbid(track)
        lbzSubmits == cfg.lbz /\ track.mbid \notin remoteLbz /\ mbid # NULL
        lfmSubmits == withLfm /\ cfg.lfm /\ ~InLfmTuples(track, remoteLfm)
        entry == LfmEntry(track.title, track.artist)
    IN \E fail \in {"none", "lbz", "lfm"}, error \in Errors :
         LET lbzDone == lbzSubmits /\ fail # "lbz"
             lfmDone == lfmSubmits /\ fail = "none"
         IN
         /\ fail = "none" => error = "other"
         /\ fail = "lbz" => lbzSubmits
         /\ fail = "lfm" => lfmSubmits
         /\ db' = [db EXCEPT ![table] =
                     add_track(@, track.title, track.artist, track.track_mbid, track.mbid)]
         /\ lbzScore' = IF lbzDone
                          THEN submit_user_feedback(lbzScore, FeedbackValue(op), mbid)
                          ELSE lbzScore
         /\ lfmLoved' = IF lfmDone THEN lfmLoved \cup {entry} ELSE lfmLoved
         /\ calls' = calls
              \o (IF lbzDone THEN <<LbzCall(op, track, mbid)>> ELSE <<>>)
              \o (IF lfmDone THEN <<LfmCall("love", track.title, track.artist)>> ELSE <<>>)
         /\ IF fail = "none"
              THEN /\ todo' = todo \ {p}
                   /\ tracks' = tracks \cup {track}
                   /\ UNCHANGED <<pc, entries, remoteLbz, remoteLfm, lastOutcome,
                                  everAborted, recovering, removed, settled,
                                  failure, reset_user_check>>
              ELSE AbortWith("adapter_error",
                             Raised(fail, IF fail = "lbz" THEN op ELSE "love", error))
         /\ UNCHANGED <<cfg, lastCall, clock, rating, dbAtStart, cleanStart, pushed, passes, envChanges>>

RelayLovesIteration ==
  /\ pc = "sf_loves"
  /\ todo # {}
  /\ RelayIterationSF("loved", "love", TRUE)

RelayHatesIteration ==
  /\ pc = "sf_hates"
  /\ todo # {}
  /\ RelayIterationSF("hated", "hate", FALSE)

\* Reset.find_tracks: every row of the table whose recording id is not among
\* the ids of plex_tracks is deleted by recording id and added to `reset`
RECURSIVE MoveToReset(_, _, _)
MoveToReset(d, table, rows) ==
  IF rows = <<>> THEN d
  ELSE LET row == Head(rows)
           d1 == [d EXCEPT ![table] = delete_by_rec_id(@, row.rec_mbid)]
           d2 == [d1 EXCEPT !["reset"] =
                    add_track(@, row.title, row.artist, row.track_mbid, row.rec_mbid)]
       IN MoveToReset(d2, table, Tail(rows))

find_tracks ==
  /\ pc \in {"sf_loves", "sf_hates"}
  /\ todo = {}
  /\ LET table == IF pc = "sf_loves" THEN "loved" ELSE "hated"
     IN db' = MoveToReset(db, table, StaleEntries(table, tracks))
  /\ pc' = IF pc = "sf_loves" THEN "sf_loves_done" ELSE "sf_hates_done"
  /\ UNCHANGED <<cfg, lastCall, clock, rating, lbzScore, lfmLoved, tracks, todo, entries,
                 remoteLbz, remoteLfm, envChanges>>
  /\ UNCHANGED history

\* Relay.hates, up to the for loop (ListenBrainz configured)
RelayHatesBegin ==
  /\ pc = "sf_loves_done"
  /\ cfg.hate
  /\ cfg.lbz
  /\ remoteLbz' = all_hates_lbz
  /\ remoteLfm' = <<>>
  /\ tracks' = {}
  /\ todo' = get_hated_tracks
  /\ pc' = "sf_hates"
  /\ UNCHANGED <<cfg, lastCall, clock, rating, lbzScore, lfmLoved, db, entries, envChanges>>
  /\ UNCHANGED history

\* Reset.all: lbz.reset for every row of `reset` that has a recording id,
\* lfm.reset for every row, then delete_by_id for every row.  `fail` is the
\* adapter whose call on row k + 1 raised, if one did.
RECURSIVE DeleteAll(_, _)
DeleteAll(tbl, rows) ==
  IF rows = <<>> THEN tbl ELSE DeleteAll(delete_by_id(tbl, Head(rows).id), Tail(rows))

LbzResetMbidSF(track) == track.mbid

all ==
  /\ \/ pc = "sf_hates_done"
     \/ pc = "sf_loves_done" /\ ~(cfg.hate /\ cfg.lbz)
  /\ LET to_remove == get_all_tracks(db["reset"])
         n == Len(to_remove)
         track(i) == Track(to_remove[i].title, to_remove[i].artist,
                           to_remove[i].rec_mbid, to_remove[i].track_mbid)
     IN \E fail \in {"none", "lbz", "lfm"}, k \in 0..n, error \in Errors :
          LET lbzUpTo == IF ~cfg.lbz THEN 0 ELSE IF fail = "lbz" THEN k ELSE n
              lfmUpTo == IF ~cfg.lfm \/ fail = "lbz" THEN 0 ELSE IF fail = "lfm" THEN k ELSE n
              lbzRows == {i \in 1..lbzUpTo : to_remove[i].rec_mbid # NULL}
          IN
          /\ fail = "none" => (k = n /\ error = "other")
          /\ fail = "lbz" => (cfg.lbz /\ k < n /\ to_remove[k + 1].rec_mbid # NULL)
          /\ fail = "lfm" => (cfg.lfm /\ k < n)
          /\ lbzScore' = [r \in Recs |->
                            IF \E i \in lbzRows : LbzResetMbidSF(track(i)) = r
                              THEN 0 ELSE lbzScore[r]]
          /\ lfmLoved' = lfmLoved \ {LfmEntry(to_remove[i].title, to_remove[i].artist) :
                                        i \in 1..lfmUpTo}
          /\ calls' = calls
               \o [j \in 1..Len(SetToSeq(lbzRows)) |->
                     LbzCall("reset", track(SetToSeq(lbzRows)[j]),
                             LbzResetMbidSF(track(SetToSeq(lbzRows)[j])))]
               \o [i \in 1..lfmUpTo |-> LfmCall("reset", to_remove[i].title, to_remove[i].artist)]
          /\ IF fail = "none"
               THEN /\ db' = [db EXCEPT !["reset"] = DeleteAll(@, to_remove)]
                    /\ pc' = "sf_reset_done"
                    /\ UNCHANGED <<tracks, todo, entries, remoteLbz, remoteLfm,
                                   lastOutcome, everAborted, recovering, removed,
                                   settled, failure, reset_user_check>>
               ELSE /\ UNCHANGED db
                    /\ AbortWith("adapter_error", Raised(fail, "reset", error))
  /\ UNCHANGED <<cfg, lastCall, clock, rating, dbAtStart, cleanStart, pushed, passes, envChanges>>

\* Relay.print_stats(love, hate): Relay.hates returns None when ListenBrainz
\* is not configured, and hate.get raises AttributeError
print_stats_sf ==
  /\ pc = "sf_reset_done"
  /\ IF cfg.hate /\ ~cfg.lbz
       THEN Abort("AttributeError")
       ELSE /\ pc' = "idle"
            /\ lastOutcome' = "ok"
            /\ tracks' = {}
            /\ todo' = {}
            /\ entries' = <<>>
            /\ remoteLbz' = {}
            /\ remoteLfm' = <<>>
            /\ UNCHANGED <<everAborted, recovering, removed, settled, failure,
                           reset_user_check>>
  /\ UNCHANGED <<cfg, lastCall, clock, rating, lbzScore, lfmLoved, db, calls, dbAtStart,
                 cleanStart, pushed, passes, envChanges>>

NextSF ==
  \/ RelayLovesBegin
  \/ RelayLovesIteration
  \/ RelayHatesBegin
  \/ RelayHatesIteration
  \/ find_tracks
  \/ all
  \/ print_stats_sf
  \/ Crash
  \/ PlexRate
  \/ LbzUserFeedback
  \/ LfmUserFeedback

SpecSF == Init /\ [][NextSF]_vars

\* ------------------------------------------------- the Database on its own
\* src/ratingrelay/database.py: the methods of Database called one at a
\* time with arbitrary arguments; lastCall holds the call and what it
\* returned or raised.
MaxRows == 2

\* table names passed by a caller: the three tables and a misspelt one
TableNames == Tables \cup {"lovd"}
DbTitles == {<<"a", "b">>}
DbArtists == {<<"x">>}
DbTrackIds == {"t1", NULL}
DbRecIds == {"r1", "r2"}

ValueError == "ValueError"

\* _validate_table_name(table): the table name, or ValueError
validate_table_name_lenient(table) == IF table \in Tables THEN table ELSE "reset"
_validate_table_name(table) == IF table \in Tables THEN table ELSE ValueError

\* everything but the tables and lastCall
outsideDatabase == <<cfg, clock, rating, lbzScore, lfmLoved, pc, tracks, todo, entries,
                     remoteLbz, remoteLfm, calls, lastOutcome, dbAtStart,
                     cleanStart, settled, everAborted, recovering, removed,
                     pushed, passes, envChanges, failure, reset_user_check>>

RowsInserted == db["loved"].seq + db["hated"].seq + db["reset"].seq

DbCall(fn, table, args, result) ==
  [fn |-> fn, table |-> table, args |-> args, result |-> result]

Database_add_track ==
  /\ RowsInserted < MaxRows
  /\ \E table \in TableNames, title \in DbTitles, artist \in DbArtists,
        track_mbid \in DbTrackIds, rec_mbid \in DbRecIds :
       LET tablename == _validate_table_name(table)
           args == <<title, artist, track_mbid, rec_mbid>>
       IN IF tablename = ValueError
            THEN /\ UNCHANGED db
                 /\ lastCall' = DbCall("add_track", table, args, ValueError)
            ELSE /\ db' = [db EXCEPT ![tablename] =
                             add_track(@, title, artist, track_mbid, rec_mbid)]
                 /\ lastCall' = DbCall("add_track", table, args, "None")
  /\ UNCHANGED outsideDatabase

Database_delete_by_rec_id ==
  /\ \E table \in TableNames, rec_mbid \in DbRecIds :
       LET tablename == _validate_table_name(table)
       IN IF tablename = ValueError
            THEN /\ UNCHANGED db
                 /\ lastCall' = DbCall("delete_by_rec_id", table, <<rec_mbid>>, ValueError)
            ELSE /\ db' = [db EXCEPT ![tablename] = delete_by_rec_id(@, rec_mbid)]
                 /\ lastCall' = DbCall("delete_by_rec_id", table, <<rec_mbid>>, "None")
  /\ UNCHANGED outsideDatabase

Database_delete_by_id ==
  /\ \E table \in TableNames, db_id \in 1..MaxRows :
       LET tablename == _validate_table_name(table)
       IN IF tablename = ValueError
            THEN /\ UNCHANGED db
                 /\ lastCall' = DbCall("delete_by_id", table, <<db_id>>, ValueError)
            ELSE /\ db' = [db EXCEPT ![tablename] = delete_by_id(@, db_id)]
                 /\ lastCall' = DbCall("delete_by_id", table, <<db_id>>, "None")
  /\ UNCHANGED outsideDatabase

Database_query_track ==
  /\ \E table \in TableNames, track_mbid \in DbTrackIds, title \in DbTitles,
        artist \in DbArtists :
       LET tablename == _validate_table_name(table)
           args == <<track_mbid, title, artist>>
       IN IF tablename = ValueError
            THEN lastCall' = DbCall("query_track", table, args, ValueError)
            ELSE lastCall' = DbCall("query_track", table, args,
                                    query_track(db[tablename], track_mbid, title, artist))
  /\ UNCHANGED db
  /\ UNCHANGED outsideDatabase

Database_get_all_tracks ==
  /\ \E table \in TableNames :
       LET tablename == _validate_table_name(table)
       IN IF tablename = ValueError
            THEN lastCall' = DbCall("get_all_tracks", table, <<>>, ValueError)
            ELSE lastCall' = DbCall("get_all_tracks", table, <<>>,
                                    get_all_tracks(db[tablename]))
  /\ UNCHANGED db
  /\ UNCHANGED outsideDatabase

\* the queries track_from_plex sends to query_recording_mbid
TrackFromPlexResolverCalls(p, table) ==
  LET title == PlexLibrary[p].title
      artist == PlexLibrary[p].artist
      track_mbid == parse_track_mbid(p)
  IN IF query_track(db[table], track_mbid, title, artist) # <<>>
       THEN <<>>
       ELSE << <<track_mbid, title, artist>> >>

\* track_from_plex(plex_track, db, plex, rating) called on the tables as
\* they stand
TrackFromPlexCall ==
  /\ \E p \in PlexIds, table \in {"loved", "hated"} :
       lastCall' = [fn |-> "track_from_plex", table |-> table, args |-> <<p>>,
                    result |-> track_from_plex(p, table),
                    resolver |-> TrackFromPlexResolverCalls(p, table)]
  /\ UNCHANGED db
  /\ UNCHANGED outsideDatabase

InitDB == Init /\ cfg = [lbz |-> TRUE, lfm |-> TRUE, hate |-> TRUE, two_way |-> FALSE]

NextDB ==
  \/ Database_add_track
  \/ Database_delete_by_rec_id
  \/ Database_delete_by_id
  \/ Database_query_track
  \/ Database_get_all_tracks
  \/ TrackFromPlexCall

SpecDB == InitDB /\ [][NextDB]_vars

\* ------------------------------------------- the matcher and the resolver
\* check_list_match (src/ratingrelay/relay.py) and query_recording_mbid
\* (src/ratingrelay/musicbrainz.py) called on their own: the arguments are
\* drawn at the start, the call fills in the result.
MaxListLen == 2

SeqsUpTo(S, n) == UNION {[1..k -> S] : k \in 0..n}

\* two spellings of one title ("a&", "A’'and") and a different title
FnTitles == {<<"a", "&">>, <<"A", "rsquo", "'", "a", "n", "d">>, <<"b">>}
FnArtists == {<<"x">>, <<"X">>, <<"b">>}

\* the searched track carries recording id r1
FnTracks == {Track(t, a, "r1", NULL) : t \in FnTitles, a \in FnArtists}

FnElements ==
  {[kind |-> "tuple", title |-> t, artist |-> a] : t \in FnTitles, a \in FnArtists}
  \cup {[kind |-> "Track", title |-> t, artist |-> a, mbid |-> r] :
          t \in FnTitles, a \in FnArtists, r \in Recs}
  \cup {[kind |-> "other"]}

\* MusicBrainz candidates: a recording id with the title and artist credited;
\* the search by title and artist answers with any list of them, the query
\* tid:None with none
MbTitles == {<<"a", "b">>, <<"A", "b">>, <<"b">>}
MbArtists == {<<"x">>, <<"X">>}
MbCandidates == [id : Recs, title : MbTitles, artist : MbArtists]

FnInputs ==
  {[fn |-> "check_list_match", args |-> <<track, target_list>>, done |-> FALSE,
    result |-> 0] : track \in FnTracks, target_list \in SeqsUpTo(FnElements, MaxListLen)}
  \cup
  {[fn |-> "query_recording_mbid", args |-> <<"t1", <<"a", "b">>, <<"x">> >>,
    recording |-> recording, query |-> NULL, done |-> FALSE, result |-> NULL] :
      recording \in SeqsUpTo(MbCandidates, MaxListLen)}
  \cup
  {[fn |-> "query_recording_mbid", args |-> <<NULL, <<"a", "b">>, <<"x">> >>,
    recording |-> MBSearchTid("None"), query |-> NULL, done |-> FALSE,
    result |-> NULL]}

\* comparison_format (src/ratingrelay/relay.py) called on its own, on every
\* string of upper- and lower-case letters, both apostrophes and the ampersand
MaxStrLen == 3

FormatInputs ==
  {[fn |-> "comparison_format", args |-> <<item>>, done |-> FALSE,
    result |-> <<>>] : item \in SeqsUpTo({"A", "a", "d", "'", "rsquo", "&"}, MaxStrLen)}

ComparisonFormatCall ==
  /\ lastCall.fn = "comparison_format"
  /\ ~lastCall.done
  /\ lastCall' = [lastCall EXCEPT !.done = TRUE,
                    !.result = comparison_format(lastCall.args[1])]
  /\ UNCHANGED db
  /\ UNCHANGED outsideDatabase

\* the query query_recording_mbid hands to mbz.search_recordings: the title
\* and artist when track_mbid is not None, f"tid:{track_mbid}" otherwise
search_recordings_query(track_mbid, title, artist) ==
  IF track_mbid # NULL
    THEN [kind |-> "title_artist", query |-> title, artist |-> artist]
    ELSE [kind |-> "tid", tid |-> "None"]

CheckListMatchCall ==
  /\ lastCall.fn = "check_list_match"
  /\ ~lastCall.done
  /\ lastCall' = [lastCall EXCEPT !.done = TRUE,
                    !.result = check_list_match(lastCall.args[1], lastCall.args[2])]
  /\ UNCHANGED db
  /\ UNCHANGED outsideDatabase

QueryRecordingMbidCall ==
  /\ lastCall.fn = "query_recording_mbid"
  /\ ~lastCall.done
  /\ lastCall' = [lastCall EXCEPT !.done = TRUE,
                    !.query = search_recordings_query(lastCall.args[1],
                                lastCall.args[2], lastCall.args[3]),
                    !.result = FirstRecordingId(lastCall.recording)]
  /\ UNCHANGED db
  /\ UNCHANGED outsideDatabase

InitFn ==
  /\ InitServices
  /\ cfg = [lbz |-> TRUE, lfm |-> TRUE, hate |-> TRUE, two_way |-> FALSE]
  /\ lastCall \in FnInputs \cup FormatInputs

NextFn ==
  \/ CheckListMatchCall
  \/ QueryRecordingMbidCall
  \/ ComparisonFormatCall

SpecFn == InitFn /\ [][NextFn]_vars

\* ------------------------------------------- the adapters on their own
\* The methods of ListenBrainz (src/ratingrelay/listenbrainz.py) called one
\* at a time with arbitrary arguments and MusicBrainz / ListenBrainz answers.
MaxRequests == 2
MaxResults == 2

\* ListenBrainz.min_delay = 0.5 and LastFM.RATE_LIMIT_DELAY = 0.3, in tenths
min_delay == 5
RATE_LIMIT_DELAY == 3

\* how long a request takes to return, in tenths
Durations == {0, 1}

\* _wait_if_needed: the time at which the caller goes on
_wait_if_needed(ck) ==
  IF ck.last_req_time # NoReqTime /\ ck.now - ck.last_req_time < min_delay
    THEN ck.last_req_time + min_delay
    ELSE ck.now

\* _handle_feedback(feedback, track) when MusicBrainz answers the search of
\* _get_track_mbid with track_search and the submission takes d: what is
\* raised, what is submitted, the scores and the clock afterwards
_handle_feedback(feedback, track, track_search, scores, ck, d) ==
  IF feedback \notin {"love", "hate"}
    THEN [raised |-> ValueError, submitted |-> <<>>, scores |-> scores, clock |-> ck]
  ELSE LET mbid == IF track.mbid = NULL
                     THEN _find_mbid_match(track, track_search)
                     ELSE track.mbid
       IN IF mbid = AttributeError
            THEN [raised |-> AttributeError, submitted |-> <<>>, scores |-> scores,
                  clock |-> ck]
          ELSE IF mbid # NULL
            THEN LET at == _wait_if_needed(ck)
                 IN [raised |-> "none",
                     submitted |-> << <<FeedbackValue(feedback), mbid>> >>,
                     scores |-> submit_user_feedback(scores, FeedbackValue(feedback), mbid),
                     clock |-> [ck EXCEPT !.now = at + d,
                                          !.last_req_time = at + d,
                                          !.lbz_sent = Append(@, [op |-> feedback, at |-> at])]]
          ELSE [raised |-> "none", submitted |-> <<>>, scores |-> scores, clock |-> ck]

\* search results: complete ones with the track's title or another, one with
\* another artist, and results that lack one thing each
LbzResults ==
  {[id |-> id, title |-> t, artist |-> <<"X">>] :
     id \in Recs, t \in {<<"A", "b">>, <<"b">>}}
  \cup {[id |-> "r1", title |-> <<"A", "b">>, artist |-> <<"b">>]}
  \cup {[id |-> "r2", title |-> <<"A", "b">>, artist |-> <<"X">>, missing |-> {m}] :
          m \in {"title", "artist-credit", "artist-credit[0]", "name", "id"}}

\* everything but the feedback on the two services, lastCall and clock
outsideAdapters == <<cfg, rating, db, pc, tracks, todo, entries,
                     remoteLbz, remoteLfm, calls, lastOutcome, dbAtStart,
                     cleanStart, settled, everAborted, recovering, removed,
                     pushed, passes, envChanges, failure, reset_user_check>>

\* _get_all_feedback pages through the account's feedback of one score,
\* count = 100 items at a time.  The account's items of that score are
\* numbered 1..n in the order the API lists them; item k stands for one
\* recording, and no_metadata holds the items whose track_metadata is null.
count == 100

\* client.get_user_feedback(score, count, offset): the items of one page
get_user_feedback(n, offset) ==
  {k \in 1..n : offset < k /\ k <= offset + count}

\* the calls: the arguments and the answers of the services are drawn at the
\* start, the call fills in what it returns, raises and submits
LbzInputs ==
  LET \* the track of the call, with and without a recording id
      lbz_tracks == {Track(<<"a", "b">>, <<"x">>, mbid, NULL) : mbid \in {NULL, "r1"}}
      \* how many items of the score the account holds
      sizes == {0, 1, 99, 100, 101, 200, 201}
  IN
  {[fn |-> "_handle_feedback", args |-> <<feedback, track, track_search>>,
    done |-> FALSE, raised |-> "none", submitted |-> <<>>] :
      feedback \in {"love", "hate", "like"}, track \in lbz_tracks,
      track_search \in SeqsUpTo(LbzResults, MaxResults)}
  \cup
  {[fn |-> "_find_mbid_match", args |-> <<track, track_search>>,
    done |-> FALSE, result |-> NULL] :
      track \in lbz_tracks, track_search \in SeqsUpTo(LbzResults, MaxResults)}
  \cup
  {[fn |-> "_get_all_feedback", score |-> score, n |-> acc[1],
    no_metadata |-> acc[2], offset |-> 0, all_loves |-> {}, done |-> FALSE] :
      score \in {1, -1},
      acc \in {<<n, {}>> : n \in sizes}
              \cup UNION {{<<n, {k}>> : k \in {1, 100, n} \cap 1..n} : n \in sizes}}

HandleFeedbackCall ==
  /\ lastCall.fn = "_handle_feedback"
  /\ ~lastCall.done
  /\ \E d \in Durations :
       LET out == _handle_feedback(lastCall.args[1], lastCall.args[2],
                                   lastCall.args[3], lbzScore, clock, d)
       IN /\ lastCall' = [lastCall EXCEPT !.done = TRUE, !.raised = out.raised,
                                          !.submitted = out.submitted]
          /\ lbzScore' = out.scores
          /\ clock' = out.clock
  /\ UNCHANGED lfmLoved
  /\ UNCHANGED outsideAdapters

FindMbidMatchCall ==
  /\ lastCall.fn = "_find_mbid_match"
  /\ ~lastCall.done
  /\ lastCall' = [lastCall EXCEPT !.done = TRUE,
                    !.result = _find_mbid_match(lastCall.args[1], lastCall.args[2])]
  /\ UNCHANGED <<lbzScore, lfmLoved, clock>>
  /\ UNCHANGED outsideAdapters

\* one iteration of `while True`
GetAllFeedbackPage ==
  /\ lastCall.fn = "_get_all_feedback"
  /\ ~lastCall.done
  /\ LET user_loves == get_user_feedback(lastCall.n, lastCall.offset)
     IN lastCall' =
          [lastCall EXCEPT
             !.all_loves = @ \cup (user_loves \ lastCall.no_metadata),
             !.done = Cardinality(user_loves) < count,
             !.offset = IF Cardinality(user_loves) < count THEN @ ELSE @ + count]
  /\ UNCHANGED <<lbzScore, lfmLoved, clock>>
  /\ UNCHANGED outsideAdapters

InitLbz ==
  /\ InitServices
  /\ cfg = [lbz |-> TRUE, lfm |-> TRUE, hate |-> TRUE, two_way |-> FALSE]
  /\ lastCall \in LbzInputs

NextLbz ==
  \/ HandleFeedbackCall
  \/ FindMbidMatchCall
  \/ GetAllFeedbackPage

SpecLbz == InitLbz /\ [][NextLbz]_vars

\* ------------------------------------------------- the adapters and time
\* The feedback-changing methods of both adapters called in any order while
\* time passes between the calls (src/ratingrelay/listenbrainz.py 56-110,
\* src/ratingrelay/lastfm.py 51-91).
MaxClock == 8

\* the rows plex_reset hands to ListenBrainz.reset / LastFM.reset
ResetRows ==
  {[title |-> <<"a", "b">>, artist |-> <<"x">>, track_mbid |-> t] :
     t \in {"t1", NULL}}

\* ListenBrainz.love / hate of a track that carries its recording id
ListenBrainz_feedback ==
  /\ Len(clock.lbz_sent) < MaxRequests
  /\ \E feedback \in {"love", "hate"}, r \in Recs, d \in Durations :
       LET track == Track(RecordingMetadata(r).title, RecordingMetadata(r).artist,
                          r, NULL)
           out == _handle_feedback(feedback, track, <<>>, lbzScore, clock, d)
       IN /\ out.clock.now <= MaxClock
          /\ lbzScore' = out.scores
          /\ clock' = out.clock
  /\ UNCHANGED <<lfmLoved, lastCall>>
  /\ UNCHANGED outsideAdapters

\* ListenBrainz.reset(track): submits at once, last_req_time is left alone
ListenBrainz_reset ==
  /\ Len(clock.lbz_sent) < MaxRequests
  /\ \E track \in ResetRows, d \in Durations :
       /\ clock.now + d <= MaxClock
       /\ lbzScore' = submit_user_feedback(lbzScore, 0, LbzResetMbid(track))
       /\ clock' = [clock EXCEPT !.now = @ + d,
                                 !.lbz_sent = Append(@, [op |-> "reset", at |-> clock.now])]
  /\ UNCHANGED <<lfmLoved, lastCall>>
  /\ UNCHANGED outsideAdapters

\* LastFM.love(track): lastfm_track.love(), then _rate_limit() sleeps
LastFM_love ==
  /\ Len(clock.lfm_sent) < MaxRequests
  /\ \E track \in ResetRows, d \in Durations :
       /\ clock.now + d + RATE_LIMIT_DELAY <= MaxClock
       /\ lfmLoved' = lfmLoved \cup {LfmEntry(track.title, track.artist)}
       /\ clock' = [clock EXCEPT !.now = @ + d + RATE_LIMIT_DELAY,
                                 !.lfm_sent = Append(@, [op |-> "love", at |-> clock.now])]
  /\ UNCHANGED <<lbzScore, lastCall>>
  /\ UNCHANGED outsideAdapters

\* LastFM.reset(track): lastfm_track.unlove(), then _rate_limit() sleeps
LastFM_reset ==
  /\ Len(clock.lfm_sent) < MaxRequests
  /\ \E track \in ResetRows, d \in Durations :
       /\ clock.now + d + RATE_LIMIT_DELAY <= MaxClock
       /\ lfmLoved' = lfmLoved \ {LfmEntry(track.title, track.artist)}
       /\ clock' = [clock EXCEPT !.now = @ + d + RATE_LIMIT_DELAY,
                                 !.lfm_sent = Append(@, [op |-> "unlove", at |-> clock.now])]
  /\ UNCHANGED <<lbzScore, lastCall>>
  /\ UNCHANGED outsideAdapters

\* the caller's own work between two adapter calls takes time
TimePasses ==
  /\ clock.now < MaxClock
  /\ clock' = [clock EXCEPT !.now = @ + 1]
  /\ UNCHANGED <<lbzScore, lfmLoved, lastCall>>
  /\ UNCHANGED outsideAdapters

InitRate ==
  /\ InitServices
  /\ cfg = [lbz |-> TRUE, lfm |-> TRUE, hate |-> TRUE, two_way |-> FALSE]
  /\ lastCall = NoCall

NextRate ==
  \/ ListenBrainz_feedback
  \/ ListenBrainz_reset
  \/ LastFM_love
  \/ LastFM_reset
  \/ TimePasses

SpecRate == InitRate /\ [][NextRate]_vars

\* ----------------------------------------------------------------- claims
LedgerRows(d) == [t \in Tables |-> d[t].rows]

\* a ledger row's identity: its recording id, else its exact title and artist
RowKey(row) ==
  IF row.rec_mbid # NULL THEN <<"rec", row.rec_mbid>>
  ELSE <<"name", row.title, row.artist>>

TableKeys(table) == {RowKey(db[table].rows[i]) : i \in 1..Len(db[table].rows)}

PlexLoves(title, artist) ==
  \E p \in get_loved_tracks : PlexLibrary[p].title = title /\ PlexLibrary[p].artist = artist

PlexHates(title, artist) ==
  \E p \in get_hated_tracks : PlexLibrary[p].title = title /\ PlexLibrary[p].artist = artist

\* the service holds the feedback f / holds nothing for f's track
Holds(f) ==
  IF f.svc = "lbz" THEN lbzScore[f.key[1]] = FeedbackValue(f.op)
  ELSE f.key \in lfmLoved

Withdrawn(f) ==
  IF f.svc = "lbz" THEN lbzScore[f.key[1]] = 0
  ELSE f.key \notin lfmLoved

HasRow(table, title, artist) ==
  \E i \in 1..Len(db[table].rows) :
    db[table].rows[i].title = title /\ db[table].rows[i].artist = artist

\* C1: a pass that completes right after a completed pass, with nothing
\* changed in between, issues no love, hate or reset submission and leaves
\* the rows of the loved, hated and reset tables as they were (stated for
\* runs in which no pass was ever aborted).
C1_SecondPassIdempotent ==
  (pc = "idle" /\ lastOutcome = "ok" /\ cleanStart /\ ~everAborted)
    => (calls = <<>> /\ LedgerRows(db) = LedgerRows(dbAtStart))

\* C2: after every completed pass no track (recording id, else title and
\* artist) has rows in more than one of the tables loved, hated and reset
\* (stated for runs in which no pass was ever aborted).
C2_PartitionExclusive ==
  (pc = "idle" /\ lastOutcome = "ok" /\ ~everAborted)
    => \A t1 \in Tables, t2 \in Tables :
         t1 # t2 => TableKeys(t1) \cap TableKeys(t2) = {}

\* C3: when plex_relay_loves (plex_relay_hates) returns, every love (hate)
\* the relay submitted for a track that Plex no longer reports as loved
\* (hated) is withdrawn on its service - score 0 on ListenBrainz for the
\* recording id that was submitted, not loved on Last.fm - and the track has
\* no row left in the loved (hated) table (stated for runs in which no pass
\* was ever aborted).
C3_UnlovePropagates ==
  ~everAborted =>
  /\ pc = "loves_returned" =>
       \A f \in pushed :
         (f.op = "love" /\ ~PlexLoves(f.title, f.artist))
           => (Withdrawn(f) /\ ~HasRow("loved", f.title, f.artist))
  /\ pc = "hates_returned" =>
       \A f \in pushed :
         (f.op = "hate" /\ ~PlexHates(f.title, f.artist))
           => (Withdrawn(f) /\ ~HasRow("hated", f.title, f.artist))

\* C4: within one pass no track gets both a love submission and a reset
\* submission on the same adapter (stated for runs in which no pass was ever
\* aborted).
C4_NoLoveAndResetInOnePass ==
  ~everAborted =>
  \A i \in 1..Len(calls), j \in 1..Len(calls) :
    ~(/\ calls[i].svc = calls[j].svc
      /\ calls[i].op = "love"
      /\ calls[j].op = "reset"
      /\ calls[i].title = calls[j].title
      /\ calls[i].artist = calls[j].artist)

\* C5: when the for loop of plex_relay_loves is over, every recording id of a
\* Plex-loved track that was absent from the ListenBrainz loved set fetched at
\* the start has received exactly one love submission, and the loved table
\* holds exactly one row with that recording id (stated for runs in which no
\* pass was ever aborted).
LoveCalls(mbid) ==
  {i \in 1..Len(calls) : calls[i].svc = "lbz" /\ calls[i].op = "love" /\ calls[i].mbid = mbid}

LovedRows(mbid) ==
  {i \in 1..Len(db["loved"].rows) : db["loved"].rows[i].rec_mbid = mbid}

C5_ExactlyOncePush ==
  (pc = "reset_loved" /\ cfg.lbz /\ ~everAborted)
    => \A t \in tracks :
         (t.mbid # NULL /\ t.mbid \notin remoteLbz)
           => (Cardinality(LoveCalls(t.mbid)) = 1 /\ Cardinality(LovedRows(t.mbid)) = 1)

\* C6: a Plex track for which MusicBrainz returns no recording id (and the
\* ledger has no entry) does not make the pass raise: the None that
\* track_from_plex returns is never dereferenced.
C6_ResolutionMissDoesNotRaise == lastOutcome # "AttributeError"

\* C7: after a pass was aborted, a later pass that completes with nothing
\* changed in between leaves no feedback the relay had submitted on a service
\* for a track that Plex does not report as loved (hated).
C7_CrashRecovery ==
  (pc = "idle" /\ lastOutcome = "ok" /\ recovering)
    => \A f \in pushed :
         ((f.op = "love" /\ ~PlexLoves(f.title, f.artist))
           \/ (f.op = "hate" /\ cfg.hate /\ ~PlexHates(f.title, f.artist)))
         => ~Holds(f)

\* C8: when plex_relay_loves (plex_relay_hates) returns, every relayed love
\* (hate) that the user removed on the service since the last pass, for a
\* track Plex still reports as loved (hated), is held by the service again
\* (stated for runs in which no pass was ever aborted).
C8_RemoteStateRefetched ==
  ~everAborted =>
  /\ pc = "loves_returned" =>
       \A f \in removed : (f.op = "love" /\ PlexLoves(f.title, f.artist)) => Holds(f)
  /\ pc = "hates_returned" =>
       \A f \in removed : (f.op = "hate" /\ PlexHates(f.title, f.artist)) => Holds(f)

\* C9: when plex_relay_loves (plex_relay_hates) returns with ListenBrainz
\* configured, every track Plex reports as loved (hated) has a resolved
\* recording id whose ListenBrainz score is +1 (-1).
ResolvedScore(p, score) ==
  \E t \in tracks :
    /\ t.title = PlexLibrary[p].title
    /\ t.artist = PlexLibrary[p].artist
    /\ t.track_mbid = PlexLibrary[p].guid
    /\ t.mbid \in Recs
    /\ lbzScore[t.mbid] = score

C9_PlexRatingsOnListenBrainz ==
  /\ (pc = "loves_returned" /\ cfg.lbz) => \A p \in get_loved_tracks : ResolvedScore(p, 1)
  /\ (pc = "hates_returned" /\ cfg.lbz) => \A p \in get_hated_tracks : ResolvedScore(p, -1)

C9_Witness ==
  /\ pc = "hates_returned"
  /\ cfg.lbz
  /\ get_hated_tracks # {}
  /\ \E i \in 1..Len(calls) : calls[i].svc = "lbz" /\ calls[i].op = "love"
  /\ \E i \in 1..Len(calls) : calls[i].svc = "lbz" /\ calls[i].op = "hate"

\* C10: when plex_relay_loves returns with Last.fm configured, every track
\* Plex reports as loved is loved on Last.fm.
C10_PlexLovesOnLastfm ==
  (pc = "loves_returned" /\ cfg.lfm)
    => \A p \in get_loved_tracks :
         LfmEntry(PlexLibrary[p].title, PlexLibrary[p].artist) \in lfmLoved

\* C11: an adapter call that meets a rate-limit error is retried after a
\* cooldown: no run is ended by a rate-limit error from a call that was
\* attempted only once.
C11_RateLimitedCallIsRetried ==
  ~(failure.error = "rate_limit" /\ failure.attempts = 1)

\* C13: when a ListenBrainz love call ends a relay pass with an exception,
\* Last.fm (if configured) has still received its submissions of that pass:
\* every track Plex reports as loved is loved on Last.fm.
C13_FailureIsolation ==
  (pc = "idle" /\ lastOutcome = "adapter_error" /\ recovering /\ cfg.lfm
     /\ failure.svc = "lbz" /\ failure.op = "love")
    => \A p \in get_loved_tracks :
         LfmEntry(PlexLibrary[p].title, PlexLibrary[p].artist) \in lfmLoved

\* C14: with exactly one of ListenBrainz and Last.fm configured, plex_relay
\* does not raise when it emits the counters of the pass (print_stats).
C14_DegradedModeCompletes ==
  (cfg.lbz # cfg.lfm) => lastOutcome # "TypeError"

\* C15: with neither ListenBrainz nor Last.fm configured no relay pass gets
\* as far as fetching Plex tracks or writing a ledger row.
RelayPcs ==
  {"loves", "hates", "reset_loved", "reset_hated", "loves_returned", "hates_returned"}

C15_NoAdapterNoRelay ==
  (~cfg.lbz /\ ~cfg.lfm) => (pc \notin RelayPcs /\ db = create_tables)

\* C16: every iteration of plex_reset on a stale row leaves a row with the
\* same title, artist, track id and recording id in the reset table (stated
\* for runs in which no pass was ever aborted).
C16_StaleRowsMoveToReset ==
  [][(PlexResetIteration /\ ~everAborted') =>
       \E i \in 1..Len(db'["reset"].rows) :
         LET r == db'["reset"].rows[i]
             row == Head(entries)
         IN /\ r.title = row.title
            /\ r.artist = row.artist
            /\ r.track_mbid = row.track_mbid
            /\ r.rec_mbid = row.rec_mbid]_vars

\* C19: when a reset run ends without a crash and without a failing service
\* call, no Plex track is loved or hated any more, every ListenBrainz score
\* is 0 if ListenBrainz is configured, and Last.fm loves nothing if Last.fm
\* is configured.
C19_ResetModeWithdrawsAll ==
  [][(pc \in ResetModePcs /\ pc' = "idle"
        /\ lastOutcome' \in {"reset_done", "TypeError_reset_lbz"})
       => /\ get_loved_tracks' = {}
          /\ cfg.hate => get_hated_tracks' = {}
          /\ cfg.lbz => \A r \in Recs : lbzScore'[r] = 0
          /\ cfg.lfm => lfmLoved' = {}]_vars

\* C20: a step of a reset-mode run changes a Plex rating, a ListenBrainz
\* score or a Last.fm love only if the answer Prompt.ask returned is exactly
\* 'reset'.
C20_ResetOnlyOnExactAnswer ==
  [][(pc \in ResetModePcs
        /\ (rating' # rating \/ lbzScore' # lbzScore \/ lfmLoved' # lfmLoved))
       => reset_user_check = "reset"]_vars

C20_Witness ==
  /\ pc \in {"reset_lbz", "reset_lfm"}
  /\ reset_user_check = "reset"
  /\ \E i \in 1..Len(calls) : calls[i].svc = "plex"

\* ResetContent(row): the columns of a ledger row other than its table-local id
ResetContent(row) ==
  [title |-> row.title, artist |-> row.artist,
   track_mbid |-> row.track_mbid, rec_mbid |-> row.rec_mbid]

\* Reset.all returns, in a run in which no pass was ever aborted
AllReturns == all /\ pc' = "sf_reset_done" /\ ~everAborted'

\* C17: when Reset.all returns and every adapter call succeeded, every row
\* that was in the reset table at the start of the call and has a recording
\* id is reset on every configured adapter (ListenBrainz score 0 for its
\* recording, its (title, artist) not loved on Last.fm) and no ledger table
\* (loved, hated, reset) holds a row with its contents.
C17_ResetAllClears ==
  [][AllReturns =>
       \A i \in 1..Len(db["reset"].rows) :
         LET row == db["reset"].rows[i]
         IN row.rec_mbid # NULL =>
              /\ cfg.lbz => lbzScore'[row.rec_mbid] = 0
              /\ cfg.lfm => LfmEntry(row.title, row.artist) \notin lfmLoved'
              /\ \A t \in {"loved", "hated", "reset"} :
                   \A j \in 1..Len(db'[t].rows) :
                     ResetContent(db'[t].rows[j]) # ResetContent(row)]_vars

\* the adapter half of C17 alone, and the removal from the reset table alone
C17_AdaptersReset ==
  [][AllReturns =>
       \A i \in 1..Len(db["reset"].rows) :
         LET row == db["reset"].rows[i]
         IN row.rec_mbid # NULL =>
              /\ cfg.lbz => lbzScore'[row.rec_mbid] = 0
              /\ cfg.lfm => LfmEntry(row.title, row.artist) \notin lfmLoved']_vars

C17_ResetTableEmptied ==
  [][AllReturns => db'["reset"].rows = <<>>]_vars

\* the (recording id, title, artist) of the ListenBrainz reset calls made, and
\* of the rows of a table that have a recording id
LbzResetCalls(cs) ==
  {<<cs[j].mbid, cs[j].title, cs[j].artist>> :
     j \in {k \in 1..Len(cs) : cs[k].svc = "lbz" /\ cs[k].op = "reset"}}

RowsWithRecordingId(tbl) ==
  {<<tbl.rows[i].rec_mbid, tbl.rows[i].title, tbl.rows[i].artist>> :
     i \in {k \in 1..Len(tbl.rows) : tbl.rows[k].rec_mbid # NULL}}

\* C18: when Reset.all returns, a row that was in the reset table at the
\* start of the call and has no recording id has not been submitted to
\* ListenBrainz (every ListenBrainz reset call is for a row that has a
\* recording id) and is still in the reset table.
C18_RowWithoutRecordingIdRemains ==
  [][AllReturns =>
       \A i \in 1..Len(db["reset"].rows) :
         LET row == db["reset"].rows[i]
         IN row.rec_mbid = NULL =>
              /\ LbzResetCalls(calls') \subseteq RowsWithRecordingId(db["reset"])
              /\ \E j \in 1..Len(db'["reset"].rows) : db'["reset"].rows[j] = row]_vars

\* the first half of C18 alone
C18_NotSubmittedToListenBrainz ==
  [][AllReturns =>
       \A i \in 1..Len(db["reset"].rows) :
         LET row == db["reset"].rows[i]
         IN row.rec_mbid = NULL =>
              LbzResetCalls(calls') \subseteq RowsWithRecordingId(db["reset"])]_vars

\* C24: in every reachable ledger state reached without an aborted pass, no
\* two rows of one table (loved, hated, reset) share the same non-null
\* recording id, and no two rows without a recording id share the same
\* (title, artist).
C24_LedgerUniqueness ==
  ~everAborted =>
    \A t \in Tables :
      \A i, j \in 1..Len(db[t].rows) :
        LET a == db[t].rows[i]
            b == db[t].rows[j]
        IN i # j =>
             /\ (a.rec_mbid # NULL /\ b.rec_mbid # NULL) => a.rec_mbid # b.rec_mbid
             /\ (a.rec_mbid = NULL /\ b.rec_mbid = NULL) =>
                  <<a.title, a.artist>> # <<b.title, b.artist>>

\* C23: Database.add_track is an idempotent insert: when add_track is called
\* a second time with the same table and the same entry, right after the
\* first call, the table keeps exactly the rows it had after the first call.
C23_AddTrackIdempotent ==
  [][(/\ Database_add_track
      /\ lastCall.fn = "add_track"
      /\ lastCall.result # ValueError
      /\ lastCall' = lastCall)
       => db'[lastCall.table].rows = db[lastCall.table].rows]_vars

\* the part of C23 for entries that carry a track id
C23_IdempotentWithTrackId ==
  [][(/\ Database_add_track
      /\ lastCall.fn = "add_track"
      /\ lastCall.result # ValueError
      /\ lastCall.args[3] # NULL
      /\ lastCall' = lastCall)
       => db'[lastCall.table].rows = db[lastCall.table].rows]_vars

\* the rows of a table that match a query by track id, by (title, artist)
RowsById(tbl, track_mbid) ==
  {i \in 1..Len(tbl.rows) : track_mbid # NULL /\ tbl.rows[i].track_mbid = track_mbid}

RowsByTitleArtist(tbl, title, artist) ==
  {i \in 1..Len(tbl.rows) : tbl.rows[i].title = title /\ tbl.rows[i].artist = artist}

\* C25: Database.query_track matches by identifier first: when the table
\* holds a row whose track id equals the given one, that row is returned; a
\* row matching only on exact (title, artist) is returned only when no row
\* matches by id; nothing is returned when neither matches.
C25_QueryTrackIdFirst ==
  (lastCall.fn = "query_track" /\ lastCall.result # ValueError) =>
    LET tbl == db[lastCall.table]
        byId == RowsById(tbl, lastCall.args[1])
        byTitleArtist == RowsByTitleArtist(tbl, lastCall.args[2], lastCall.args[3])
    IN /\ byId # {} => \E i \in byId : lastCall.result = <<tbl.rows[i]>>
       /\ (byId = {} /\ byTitleArtist # {}) =>
            \E i \in byTitleArtist : lastCall.result = <<tbl.rows[i]>>
       /\ (byId = {} /\ byTitleArtist = {}) => lastCall.result = <<>>

\* C26: every Database operation (add_track, delete_by_rec_id, delete_by_id,
\* query_track, get_all_tracks) called with a table name other than loved,
\* hated or reset raises ValueError and leaves the three tables unchanged.
C26_UnknownTableRaises ==
  [][("table" \in DOMAIN lastCall' /\ lastCall'.table \notin Tables)
       => (lastCall'.result = ValueError /\ db' = db)]_vars

C26_Witness ==
  /\ lastCall.fn = "add_track"
  /\ lastCall.table \notin Tables
  /\ lastCall.result = ValueError
  /\ \E t \in Tables : db[t].rows # <<>>

SameSpelling(a, b) == comparison_format(a) = comparison_format(b)

\* the id of the first candidate whose normalized title and artist equal
\* the track's, NULL if there is none
FirstExactCandidate(recording, title, artist) ==
  LET exact == {i \in 1..Len(recording) :
                  /\ SameSpelling(recording[i].title, title)
                  /\ SameSpelling(recording[i].artist, artist)}
  IN IF exact = {} THEN NULL
     ELSE recording[CHOOSE i \in exact : \A j \in exact : i <= j].id

\* C28: the recording id query_recording_mbid returns is the id of the first
\* search candidate whose normalized title and normalized artist both equal
\* the track's, and None when no candidate matches exactly or the result
\* list is empty.
C28_ResolverReturnsFirstExactMatch ==
  (lastCall.fn = "query_recording_mbid" /\ lastCall.done) =>
    lastCall.result =
      FirstExactCandidate(lastCall.recording, lastCall.args[2], lastCall.args[3])

\* the part of C28 for an empty result list
C28_EmptyListGivesNone ==
  (lastCall.fn = "query_recording_mbid" /\ lastCall.done /\ lastCall.recording = <<>>)
    => lastCall.result = NULL

\* C29: for a searched track and a one-element list holding a Track, both
\* with a recording id, check_list_match reports a match if and only if
\* the two recording ids are equal, whatever their titles and artists.
C29_SameTrackIffSameRecordingId ==
  (/\ lastCall.fn = "check_list_match"
   /\ lastCall.done
   /\ Len(lastCall.args[2]) = 1
   /\ lastCall.args[2][1].kind = "Track")
    => ((lastCall.result >= 1) <=> (lastCall.args[1].mbid = lastCall.args[2][1].mbid))

\* the elements of a list whose title / artist is a spelling of the track's
TitleMatches(track, e) == e.kind # "other" /\ SameSpelling(e.title, track.title)
ArtistMatches(track, e) == e.kind # "other" /\ SameSpelling(e.artist, track.artist)

\* C30: check_list_match finds a match whenever the list holds a tuple or a
\* Track whose title and artist differ from the searched track's only by
\* letter case, apostrophes or '&' versus 'and', on either side; and it
\* returns False when every element whose title matches has a
\* non-matching artist.
C30_FuzzyMatch ==
  (lastCall.fn = "check_list_match" /\ lastCall.done) =>
    LET track == lastCall.args[1]
        target_list == lastCall.args[2]
        idx == 1..Len(target_list)
    IN /\ (\E i \in idx : TitleMatches(track, target_list[i])
                            /\ ArtistMatches(track, target_list[i]))
            => lastCall.result >= 1
       /\ (\A i \in idx : TitleMatches(track, target_list[i])
                            => ~ArtistMatches(track, target_list[i]))
            => lastCall.result = 0

\* the parts of C30 that hold: lists of tuples, and the False result
C30_FuzzyMatchOnTuples ==
  (lastCall.fn = "check_list_match" /\ lastCall.done) =>
    LET track == lastCall.args[1]
        target_list == lastCall.args[2]
        idx == 1..Len(target_list)
    IN /\ (\E i \in idx : /\ target_list[i].kind = "tuple"
                            /\ TitleMatches(track, target_list[i])
                            /\ ArtistMatches(track, target_list[i]))
            => lastCall.result >= 1
       /\ (\A i \in idx : TitleMatches(track, target_list[i])
                            => ~ArtistMatches(track, target_list[i]))
            => lastCall.result = 0

\* a track of a service and a track of the Plex library that the relay
\* treats as the same: title and artist are spellings of each other
FuzzyMatches(track, p) ==
  /\ SameSpelling(track.title, PlexLibrary[p].title)
  /\ SameSpelling(track.artist, PlexLibrary[p].artist)

\* the Plex tracks lbz_relay has to rate loved: not loved on Plex, and a
\* recording loved on ListenBrainz fuzzy-matches them
LbzLovesToRelay ==
  {p \in PlexIds : /\ p \notin get_loved_tracks
                   /\ \E t \in get_all_feedback(1) : FuzzyMatches(t, p)}

PlexRatingCalls(cs, p) ==
  {i \in 1..Len(cs) : cs[i].svc = "plex" /\ cs[i].op = "love" /\ cs[i].id = p}

\* C21: in a two-way pass (no pass aborted before), when lbz_relay runs with
\* ListenBrainz configured, it does not raise, and every Plex track that is
\* not loved on Plex and fuzzy-matches a recording loved on ListenBrainz is
\* rated at the love threshold exactly once.
C21_TwoWayRelay ==
  [][(lbz_relay /\ cfg.lbz /\ ~everAborted) =>
       /\ pc' = "lfm_relay"
       /\ \A p \in LbzLovesToRelay :
            /\ rating'[p] = love_threshold
            /\ Cardinality(PlexRatingCalls(calls', p)) = 1]_vars

\* what lbz_relay and lfm_relay do in every run: they never change a rating
C21_ReverseRelayRatesNothing ==
  [][(lbz_relay \/ lfm_relay) => rating' = rating]_vars

\* C22: when two_way is false, relay never submits a rating to Plex: no
\* step of a pass changes a Plex rating, and the pass does not enter
\* lbz_relay or lfm_relay, from which alone ratings are submitted.
C22_OneWayLeavesPlexAlone ==
  [][(~cfg.two_way /\ (pc # "idle" \/ pc' # "idle"))
       => (rating' = rating /\ pc' \notin TwoWayPcs)]_vars

\* a one-way pass has completed while a recording loved on ListenBrainz
\* matches a Plex track that is not loved on Plex
C22_Witness ==
  /\ ~cfg.two_way
  /\ pc = "idle"
  /\ lastOutcome = "ok"
  /\ LbzLovesToRelay # {}

\* C31: comparison_format is idempotent: formatting a formatted string
\* gives the same string again.
C31_ComparisonFormatIdempotent ==
  (lastCall.fn = "comparison_format" /\ lastCall.done)
    => comparison_format(lastCall.result) = lastCall.result

\* a string with a capital, both apostrophes' kinds or an ampersand was
\* formatted, and the result differs from it
C31_Witness ==
  /\ lastCall.fn = "comparison_format"
  /\ lastCall.done
  /\ lastCall.args[1] = <<"A", "&", "'">>
  /\ lastCall.result = <<"a", "a", "n", "d">>

\* C36: query_recording_mbid sends the query tid:<track id> exactly when the
\* Plex track id is present, and the title and artist query exactly when it
\* is absent.
C36_QueryFollowsTrackId ==
  (lastCall.fn = "query_recording_mbid" /\ lastCall.done)
    => /\ (lastCall.args[1] # NULL) <=>
            (lastCall.query.kind = "tid" /\ lastCall.query.tid = lastCall.args[1])
       /\ (lastCall.args[1] = NULL) <=> (lastCall.query.kind = "title_artist")

\* the id the claims expect from a search: that of the first result that
\* has a title, a first artist credit with a name, and an id, and whose
\* lower-cased title and artist are the track's; NULL when there is none
ReadableMatches(track, track_search) ==
  {i \in 1..Len(track_search) :
     /\ Missing(track_search[i]) = {}
     /\ lower(track_search[i].title) = lower(track.title)
     /\ lower(track_search[i].artist) = lower(track.artist)}

FirstReadableMatch(track, track_search) ==
  LET hits == ReadableMatches(track, track_search)
  IN IF hits = {} THEN NULL
     ELSE track_search[CHOOSE i \in hits : \A j \in hits : i <= j].id

\* C35: _find_mbid_match returns the id of the first result whose lower-cased
\* title and first artist-credit name equal the track's; a result with a
\* missing field never raises and is passed over; None when nothing matches.
C35_FindMbidMatchSkipsMalformed ==
  (lastCall.fn = "_find_mbid_match" /\ lastCall.done)
    => lastCall.result = FirstReadableMatch(lastCall.args[1], lastCall.args[2])

\* C35, for results without artist-credit, with an empty artist-credit or
\* without id only: no exception, and the scan goes on.
C35_CaughtKindsAreSkipped ==
  (/\ lastCall.fn = "_find_mbid_match"
   /\ lastCall.done
   /\ \A i \in 1..Len(lastCall.args[2]) :
        Missing(lastCall.args[2][i]) \cap {"title", "name"} = {})
    => lastCall.result = FirstReadableMatch(lastCall.args[1], lastCall.args[2])

\* what C34 expects of a call: ValueError and no submission for a feedback
\* kind other than love and hate; else no error, and one submission of +1 or
\* -1 for the id the track carries or the search resolves, none without id
ExpectedSubmission(feedback, track, track_search) ==
  LET mbid == IF track.mbid # NULL THEN track.mbid
              ELSE FirstReadableMatch(track, track_search)
  IN IF feedback \notin {"love", "hate"}
       THEN [raised |-> ValueError, submitted |-> <<>>]
     ELSE IF mbid = NULL THEN [raised |-> "none", submitted |-> <<>>]
     ELSE [raised |-> "none",
           submitted |-> << <<IF feedback = "love" THEN 1 ELSE -1, mbid>> >>]

\* C34: love / hate submit exactly one feedback of +1 / -1 for the track's
\* recording id or, without one, for the id resolved by title and artist;
\* nothing is submitted and nothing raised when no id is resolved; another
\* feedback kind raises ValueError before anything is submitted.
C34_HandleFeedback ==
  (lastCall.fn = "_handle_feedback" /\ lastCall.done)
    => LET e == ExpectedSubmission(lastCall.args[1], lastCall.args[2],
                                   lastCall.args[3])
       IN lastCall.raised = e.raised /\ lastCall.submitted = e.submitted

\* C34, when every search result has a title and its first credit a name.
C34_HandleFeedbackOnReadableResults ==
  (/\ lastCall.fn = "_handle_feedback"
   /\ lastCall.done
   /\ \A i \in 1..Len(lastCall.args[3]) :
        Missing(lastCall.args[3][i]) \cap {"title", "name"} = {})
    => LET e == ExpectedSubmission(lastCall.args[1], lastCall.args[2],
                                   lastCall.args[3])
       IN lastCall.raised = e.raised /\ lastCall.submitted = e.submitted

\* C38: all_loves / all_hates return one Track for every recording with that
\* score on the account, across all pages, none omitted.
C38_AllFeedbackReturned ==
  (lastCall.fn = "_get_all_feedback" /\ lastCall.done)
    => lastCall.all_loves = 1..lastCall.n

\* C38, for accounts whose every item has track metadata.
C38_AllPagesRead ==
  (/\ lastCall.fn = "_get_all_feedback"
   /\ lastCall.done
   /\ lastCall.no_metadata \cap 1..lastCall.n = {})
    => lastCall.all_loves = 1..lastCall.n

\* every two consecutive requests of one log are at least `delay` apart
Spaced(sent, delay) ==
  \A i \in 1..(Len(sent) - 1) : sent[i + 1].at - sent[i].at >= delay

\* C33: between two consecutive feedback-changing requests to one adapter at
\* least its minimum delay passes: 0.5 s for ListenBrainz (love, hate,
\* reset), 0.3 s for Last.fm (love, unlove).
C33_MinimumDelay ==
  /\ Spaced(clock.lbz_sent, min_delay)
  /\ Spaced(clock.lfm_sent, RATE_LIMIT_DELAY)

\* C33, for Last.fm alone.
C33_LastfmDelay == Spaced(clock.lfm_sent, RATE_LIMIT_DELAY)

\* C33, for the love and hate requests of ListenBrainz alone.
C33_LoveHateDelay ==
  Spaced(SelectSeq(clock.lbz_sent, LAMBDA q : q.op \in {"love", "hate"}), min_delay)

\* every recording hated (loved) on ListenBrainz fuzzy-matches a track that
\* is hated (loved) on Plex now
LbzHatesSynced ==
  \A t \in get_all_feedback(-1) : \E p \in get_hated_tracks : FuzzyMatches(t, p)

LbzLovesSynced ==
  \A t \in get_all_feedback(1) : \E p \in get_loved_tracks : FuzzyMatches(t, p)

PlexHateCalls(cs) == {i \in 1..Len(cs) : cs[i].svc = "plex" /\ cs[i].op = "hate"}

\* C37: in two-way mode sync_list_with_plex treats a recording hated on
\* ListenBrainz as already synced exactly when it fuzzy-matches a track that
\* is hated on Plex now: when every hated recording does (and every loved
\* one matches a loved track), lbz_relay rates nothing and returns; and a
\* track is rated at the hate threshold only for a hated recording that
\* matches no track hated on Plex.
C37_SyncedAgainstHatedSet ==
  [][(lbz_relay /\ cfg.lbz /\ cfg.hate /\ ~everAborted) =>
       /\ (LbzLovesSynced /\ LbzHatesSynced /\ get_all_feedback(-1) # {})
            => (pc' = "lfm_relay" /\ calls' = calls /\ rating' = rating)
       /\ \A i \in PlexHateCalls(calls') \ PlexHateCalls(calls) :
            \E t \in get_all_feedback(-1) :
              /\ FuzzyMatches(t, calls'[i].id)
              /\ ~\E p \in get_hated_tracks : FuzzyMatches(t, p)]_vars

\* C32: without a hate threshold no step of a relay pass, two-way mode
\* included, submits a hate to ListenBrainz, rates a Plex track at a hate
\* value or changes the hated table.
C32_NoHateWithoutThreshold ==
  [][(~cfg.hate /\ (pc # "idle" \/ pc' # "idle")) =>
       /\ db'["hated"] = db["hated"]
       /\ \A i \in 1..Len(calls') :
            calls'[i].op = "hate" => (i <= Len(calls) /\ calls[i] = calls'[i])
       /\ \A r \in Recs : lbzScore'[r] = -1 => lbzScore[r] = -1
       /\ \A p \in PlexIds :
            rating'[p] = HateThresholdValue => rating[p] = HateThresholdValue]_vars

\* a two-way pass without hate threshold has completed while a Plex track
\* has the rating a hate threshold would cover and a recording is hated on
\* ListenBrainz
C32_Witness ==
  /\ ~cfg.hate
  /\ cfg.two_way
  /\ cfg.lbz
  /\ pc = "idle"
  /\ settled
  /\ lastOutcome = "ok"
  /\ \E p \in PlexIds : rating[p] = HateThresholdValue
  /\ \E r \in Recs : lbzScore[r] = -1
  /\ db["hated"].rows = <<>>

\* the recording ids of a table's rows, and of the Tracks built from Plex
TableRecIds(tbl) == {tbl.rows[i].rec_mbid : i \in 1..Len(tbl.rows)}
TrackRecIds(ts) == {t.mbid : t \in ts}

\* C39, when plex_relay_loves / plex_relay_hates has gone through its loops:
\* the recording ids of the table are those of the tracks Plex reported.
C39_LedgerMirrorsPlexAfterLoops ==
  /\ pc = "loves_returned" => TableRecIds(db["loved"]) = TrackRecIds(tracks)
  /\ pc = "hates_returned" => TableRecIds(db["hated"]) = TrackRecIds(tracks)

\* C39: after plex_relay_loves (plex_relay_hates) returns normally, the
\* recording ids in the loved (hated) table are those of the tracks Plex
\* reports for that rating, whichever adapters are configured.  Without
\* ListenBrainz plex_relay_hates returns {} at once, within the step that
\* goes on to print_stats.
C39_LedgerMirrorsPlex ==
  [][/\ pc' = "loves_returned" => TableRecIds(db'["loved"]) = TrackRecIds(tracks')
     /\ pc' = "hates_returned" => TableRecIds(db'["hated"]) = TrackRecIds(tracks')
     /\ (print_stats /\ pc = "loves_returned" /\ cfg.hate /\ ~cfg.lbz)
          => TableRecIds(db["hated"])
               = TrackRecIds(to_tracks(get_hated_tracks, "hated"))]_vars

====
